---- MODULE Spec2Model ----
(***************************************************************************)
(* Glyph C6 plant monitor, deep-sleep firmware: the wake-cycle task of     *)
(* main.c, the sleep scheduler of deep_sleep.c and the join state machine  *)
(* of zigbee_core.c.                                                       *)
(*                                                                         *)
(* Time is counted in milliseconds.  The firmware keeps last_read_time     *)
(* and wake_time_us in microseconds in uint64_t; the model keeps the same  *)
(* quantities in milliseconds modulo TIME_MOD, the stand-in for 2^64.      *)
(*                                                                         *)
(* One behaviour is one power-on lifetime.  RTC memory keeps rtc_state     *)
(* through deep sleep; every other static is re-initialised at each wake.  *)
(* esp_timer_get_time() is the platform's: clockDomain says whether its    *)
(* count restarts at every wake ("since_boot") or runs on through sleep    *)
(* ("persistent").                                                         *)
(***************************************************************************)
EXTENDS Integers, FiniteSets, Sequences, TLC

\* ------------------------------------------------------------ bounds
MaxBoots == 2          \* wakes (deep_sleep_init calls) of one power-on lifetime
MaxBootClock == 2      \* esp_timer readings at deep_sleep_init: 1..MaxBootClock
MaxAwakeSpan == 1      \* seconds a persistent clock gains while awake: 1..MaxAwakeSpan
MaxMarks == 2          \* mark_sensors_read calls of one scheduler-call sequence
MaxTempSum == 2000     \* sums of valid temperature samples (C): -MaxTempSum..MaxTempSum
MaxMilliVolt == 5000   \* battery voltages given to voltage_to_percentage: 0..MaxMilliVolt

\* ------------------------------------------------------------ program constants
SLEEP_INTERVAL_SEC == 3600
WAKE_TIME_MS == 60000
NUM_SENSOR_SAMPLES == 5
SAMPLE_INTERVAL_MS == 5000
MAX_JOIN_WAIT_MS == 30000
POLL_DELAY_MS == 1000
SETTLE_DELAY_MS == 5000
SLEEP_FLUSH_MS == 100
MIN_SLEEP_SEC == 10
I2C_MASTER_TIMEOUT_MS == 1000
MOISTURE_CONV_MS == 5
TEMP_CONV_MS == 10
BATTERY_SAMPLES_AVG == 10
BATTERY_SAMPLE_DELAY_MS == 10

\* stand-in for 2^64: the width of last_read_time and wake_time_us
TIME_MOD == 2^30

\* (uint64_t)SLEEP_INTERVAL_SEC * 1000000ULL, in the model's milliseconds
READ_INTERVAL == SLEEP_INTERVAL_SEC * 1000

\* mutant: the subtraction saturates at zero
Sub64_Saturating(a, b) == IF a < b THEN 0 ELSE a - b

\* unsigned subtraction of the time type
Sub64(a, b) == (a - b + TIME_MOD) % TIME_MOD

BootClocks == 1..MaxBootClock
AwakeSpans == {s * 1000 : s \in 1..MaxAwakeSpan}

VARIABLES
    rtc_state,          \* RTC_DATA_ATTR record: survives deep sleep
    initialized,        \* deep_sleep.c static
    wake_time_us,       \* deep_sleep.c static
    sleep_timer,        \* duration armed by esp_sleep_enable_timer_wakeup (s), 0 = none
    pc,                 \* position of app_main / wake_cycle_task
    wake_cause,         \* esp_sleep_get_wakeup_cause() of the current boot
    clockDomain,        \* what esp_timer_get_time() counts from
    bootClock,          \* the esp_timer reading deep_sleep_init gets this boot
    elapsed,            \* xTaskGetTickCount() - start_time
    now,                \* elapsed as sampled at the top of the wait loop
    sensors_read,       \* wake_cycle_task local
    data_transmitted,   \* wake_cycle_task local
    readings_complete,  \* main.c static
    sample_i,           \* loop index of read_averaged_sensors
    valid_soil_samples,
    valid_battery_samples,
    zigbee_joined,      \* device_info.zigbee_joined
    zb,                 \* what the Zigbee stack is doing
    factory_new,        \* esp_zb_bdb_is_factory_new(): stack NVRAM
    ep,                 \* history of the current boot (observation only)
    api,                \* history of the scheduler calls (observation only)
    calc,               \* a function called on its own: name, arguments, result
    device_info,        \* device_info.pan_id, .channel, .short_address
    alarm_wait,         \* ms until the esp_zb_scheduler_alarm callback is due
    main_loop_task      \* zigbee_main_loop_task_handle != NULL

vars == <<rtc_state, initialized, wake_time_us, sleep_timer, pc, wake_cause,
          clockDomain, bootClock, elapsed, now, sensors_read, data_transmitted,
          readings_complete, sample_i, valid_soil_samples, valid_battery_samples,
          zigbee_joined, zb, factory_new, ep, api, calc, device_info, alarm_wait,
          main_loop_task>>

\* ------------------------------------------------------------ deep_sleep.c

\* static RTC_DATA_ATTR deep_sleep_state_t rtc_state = {...}
RtcPowerOn ==
    [boot_count |-> 0, sensor_read_count |-> 0, last_read_time |-> 0,
     first_boot |-> TRUE]

\* mutant: a wake that is not from the timer starts the count again
DeepSleepInit_Recount(st, cause) ==
    IF cause = "timer"
    THEN [st EXCEPT !.boot_count = @ + 1, !.first_boot = FALSE]
    ELSE [st EXCEPT !.boot_count = 1, !.first_boot = (st.boot_count = 0),
                    !.last_read_time = IF st.boot_count = 0 THEN 0 ELSE @]

\* mutant: every non-timer wake is taken for the first boot
DeepSleepInit_AlwaysFirst(st, cause) ==
    LET s1 == [st EXCEPT !.boot_count = @ + 1]
    IN  IF cause = "timer"
        THEN [s1 EXCEPT !.first_boot = FALSE]
        ELSE [s1 EXCEPT !.first_boot = TRUE, !.last_read_time = 0]

\* deep_sleep_init: the effect on rtc_state for a wake cause
DeepSleepInit(st, cause) ==
    LET s1 == [st EXCEPT !.boot_count = @ + 1]
    IN  IF cause = "timer"
        THEN [s1 EXCEPT !.first_boot = FALSE]
        ELSE IF s1.boot_count = 1
             THEN [s1 EXCEPT !.first_boot = TRUE, !.last_read_time = 0]
             ELSE s1

\* mutant: a reading is always due
ShouldReadSensors_Always(init, st, t) == init

\* mutant: the interval test is strict
ShouldReadSensors_Strict(init, st, t) ==
    IF ~init THEN FALSE
    ELSE IF st.first_boot THEN TRUE
    ELSE Sub64(t, st.last_read_time) > READ_INTERVAL

\* mutant: first_boot is looked at before the initialized flag
ShouldReadSensors_FirstBootFirst(init, st, t) ==
    IF st.first_boot THEN TRUE
    ELSE IF ~init THEN FALSE
    ELSE Sub64(t, st.last_read_time) >= READ_INTERVAL

\* mutant: the operands of the elapsed-time subtraction are swapped
ShouldReadSensors_Swapped(init, st, t) ==
    IF ~init THEN FALSE
    ELSE IF st.first_boot THEN TRUE
    ELSE Sub64(st.last_read_time, t) >= READ_INTERVAL

\* deep_sleep_should_read_sensors
ShouldReadSensors(init, st, t) ==
    IF ~init THEN FALSE
    ELSE IF st.first_boot THEN TRUE
    ELSE Sub64(t, st.last_read_time) >= READ_INTERVAL

\* mutant: marking counts the reading twice
MarkSensorsRead_Twice(st, t) ==
    [st EXCEPT !.last_read_time = t, !.sensor_read_count = @ + 2]

\* mutant: marking stamps a time after the wake time
MarkSensorsRead_Later(st, t) ==
    [st EXCEPT !.last_read_time = (t + SETTLE_DELAY_MS) % TIME_MOD,
               !.sensor_read_count = @ + 1]

\* mutant: marking also clears first_boot
MarkSensorsRead_ClearsFirstBoot(st, t) ==
    [st EXCEPT !.last_read_time = t, !.sensor_read_count = @ + 1,
               !.first_boot = FALSE]

\* mutant: marking counts the reading but keeps the old timestamp
MarkSensorsRead_CountOnly(st, t) ==
    [st EXCEPT !.sensor_read_count = @ + 1]

\* deep_sleep_mark_sensors_read
MarkSensorsRead(st, t) ==
    [st EXCEPT !.last_read_time = t, !.sensor_read_count = @ + 1]

\* deep_sleep_time_until_next_reading (seconds)
TimeUntilNextReading(init, st, t) ==
    IF ~init THEN SLEEP_INTERVAL_SEC
    ELSE LET since == Sub64(t, st.last_read_time)
         IN  IF since >= READ_INTERVAL THEN 0
             ELSE (READ_INTERVAL - since) \div 1000

\* mutant: the device sleeps until the next reading is due
SleepDurationSec_Remaining ==
    LET r == TimeUntilNextReading(initialized, rtc_state, wake_time_us)
    IN  IF r < MIN_SLEEP_SEC THEN MIN_SLEEP_SEC ELSE r

\* mutant: the device sleeps for the floor, not for the interval
SleepDurationSec_Floor == MIN_SLEEP_SEC

\* deep_sleep_enter: sleep duration, floored
SleepDurationSec ==
    IF SLEEP_INTERVAL_SEC < MIN_SLEEP_SEC THEN MIN_SLEEP_SEC ELSE SLEEP_INTERVAL_SEC

\* mutant: entering deep sleep leaves first_boot alone
DeepSleepEnterState_Keep(st) == st

\* mutant: entering deep sleep forgets the last reading
DeepSleepEnterState_ZeroLast(st) ==
    [st EXCEPT !.first_boot = FALSE, !.last_read_time = 0]

\* deep_sleep_enter: the effect on rtc_state
DeepSleepEnterState(st) == [st EXCEPT !.first_boot = FALSE]

\* deep_sleep_enter(): what it returns (it does not return once the device powers
\* down), the record and the wake timer it leaves
DeepSleepEnter(init, st, timer) ==
    IF ~init
    THEN [ret |-> "ESP_ERR_INVALID_STATE", st |-> st, timer |-> timer, asleep |-> FALSE]
    ELSE [ret |-> "none", st |-> DeepSleepEnterState(st), timer |-> SleepDurationSec,
          asleep |-> TRUE]

\* deep_sleep_get_state(state): the return value and the caller's record after the
\* call (state is the record before it, null says that the pointer is NULL)
DeepSleepGetState(init, st, null, state) ==
    IF ~init \/ null THEN [ret |-> FALSE, state |-> state]
    ELSE [ret |-> TRUE, state |-> st]

\* ------------------------------------------------------------ sensors

\* outcomes of one soil_sensor_read_all call: which I2C transaction failed, and how
SoilOutcomes == {"ok", "temp_timeout", "nack"}

\* soil_sensor_read_all returns ESP_OK whenever the moisture read succeeded
SoilValid(o) == o \in {"ok", "temp_timeout"}

\* time one soil_sensor_read_all call takes: conversion delays plus an I2C timeout
SoilDuration(o) ==
    CASE o = "ok"           -> MOISTURE_CONV_MS + TEMP_CONV_MS
      [] o = "temp_timeout" -> MOISTURE_CONV_MS + TEMP_CONV_MS + I2C_MASTER_TIMEOUT_MS
      [] o = "nack"         -> 0

\* read_battery_voltage: BATTERY_SAMPLES_AVG conversions, a delay after each
BatteryDuration == BATTERY_SAMPLES_AVG * BATTERY_SAMPLE_DELAY_MS

\* ------------------------------------------------------------ zigbee state

\* device_info's network fields as the initialiser and zigbee_core_init leave them
NoNetwork == [pan_id |-> 0, channel |-> 0, short_address |-> 0]

\* what esp_zb_get_pan_id / _current_channel / _short_address return once joined
StackNetwork == [pan_id |-> 6754, channel |-> 11, short_address |-> 4660]

\* esp_zb_scheduler_alarm(..., ESP_ZB_BDB_MODE_NETWORK_STEERING, 3000)
STEERING_RETRY_MS == 3000

\* the alarm's remaining wait after d more ms have passed
AlarmAfter(w, d) == IF w > d THEN w - d ELSE 0

\* ------------------------------------------------------------ history

\* what the current boot has done so far; start is rtc_state as the wake found it
EpStart(st) ==
    [start |-> st, joinSeen |-> FALSE, polls |-> 0, reads |-> 0, reports |-> 0,
     marks |-> 0, readDone |-> FALSE, steered |-> FALSE]

\* no function is being called on its own
CalcIdle == [fn |-> "none", step |-> "idle", in |-> 0, out |-> 0]

\* the scheduler calls made so far: seq counts the chain
\* should_read (true) -> mark -> should_read; ret and args are the last should_read's
ApiStart ==
    [seq |-> 0, asked |-> FALSE, ret |-> FALSE, init |-> FALSE, fb |-> FALSE,
     t |-> 0, last |-> 0]

ApiAfterShouldRead(a, init, st, t, ret) ==
    [seq |-> IF a.seq = 2 THEN 3 ELSE IF ret THEN 1 ELSE 0,
     asked |-> TRUE, ret |-> ret, init |-> init, fb |-> st.first_boot, t |-> t,
     last |-> st.last_read_time]

ApiAfterMark(a) == [a EXCEPT !.seq = IF a.seq = 1 THEN 2 ELSE 0]

\* ------------------------------------------------------------ initial state

\* power-on: RTC memory holds its initialiser, the CPU is at app_main
Init ==
    /\ rtc_state = RtcPowerOn
    /\ initialized = FALSE
    /\ wake_time_us = 0
    /\ sleep_timer = 0
    /\ pc = "boot"
    /\ wake_cause = "undefined"
    /\ clockDomain \in {"since_boot", "persistent"}
    /\ bootClock \in BootClocks
    /\ elapsed = 0
    /\ now = 0
    /\ sensors_read = FALSE
    /\ data_transmitted = FALSE
    /\ readings_complete = FALSE
    /\ sample_i = 0
    /\ valid_soil_samples = 0
    /\ valid_battery_samples = 0
    /\ zigbee_joined = FALSE
    /\ zb = "stopped"
    /\ factory_new \in BOOLEAN
    /\ ep = EpStart(RtcPowerOn)
    /\ api = ApiStart
    /\ calc = CalcIdle
    /\ device_info = NoNetwork
    /\ alarm_wait = 0
    /\ main_loop_task = FALSE

\* ------------------------------------------------------------ app_main

\* app_main from deep_sleep_init to zigbee_core_start: esp_zb_start(false) queues the
\* stack's first signal, which waits for the main loop
AppMain ==
    /\ pc = "boot"
    /\ rtc_state' = DeepSleepInit(rtc_state, wake_cause)
    /\ initialized' = TRUE
    /\ wake_time_us' = bootClock
    /\ zigbee_joined' = FALSE
    /\ device_info' = NoNetwork
    /\ zb' = "startup"
    /\ pc' = "stack_started"
    /\ UNCHANGED <<sleep_timer, wake_cause, clockDomain, bootClock, elapsed, now,
                   sensors_read, data_transmitted, readings_complete, sample_i,
                   valid_soil_samples, valid_battery_samples, factory_new, ep, api, calc,
                   alarm_wait, main_loop_task>>

\* zigbee_core_start_main_loop_task: xTaskCreate(zigbee_main_loop_task)
StartMainLoopTask ==
    /\ pc = "stack_started"
    /\ main_loop_task' = TRUE
    /\ pc' = "loop_started"
    /\ UNCHANGED <<rtc_state, initialized, wake_time_us, sleep_timer, wake_cause,
                   clockDomain, bootClock, elapsed, now, sensors_read, data_transmitted,
                   readings_complete, sample_i, valid_soil_samples,
                   valid_battery_samples, zigbee_joined, zb, factory_new, ep, api, calc,
                   device_info, alarm_wait>>

\* the rest of app_main, xTaskCreate(wake_cycle_task), and the task's prologue
StartWakeCycleTask ==
    /\ pc = "loop_started"
    /\ elapsed' = 0
    /\ now' = 0
    /\ sensors_read' = FALSE
    /\ data_transmitted' = FALSE
    /\ pc' = "poll"
    /\ UNCHANGED <<rtc_state, initialized, wake_time_us, sleep_timer, wake_cause,
                   clockDomain, bootClock, readings_complete, sample_i,
                   valid_soil_samples, valid_battery_samples, zigbee_joined, zb,
                   factory_new, ep, api, calc, device_info, alarm_wait, main_loop_task>>

\* ------------------------------------------------------------ wake_cycle_task

\* mutant: the read does not wait for the join
StartRead_NoJoin(joined, sr, due) == ~sr /\ due

\* if (zigbee_core_is_joined()) { if (!sensors_read && deep_sleep_should_read_sensors())
StartRead(joined, sr, due) == joined /\ ~sr /\ due

\* mutant: the report does not wait for the read
StartReport_Early(joined, sr, dt) == joined /\ ~dt

\* if (zigbee_core_is_joined()) { ... if (sensors_read && !data_transmitted)
StartReport(joined, sr, dt) == joined /\ sr /\ ~dt

\* top of the wait loop: sample the tick count, test the join flag, decide to read
Poll ==
    /\ pc = "poll"
    /\ now' = elapsed
    /\ LET asks == zigbee_joined /\ ~sensors_read
           due  == ShouldReadSensors(initialized, rtc_state, wake_time_us)
       IN  /\ api' = IF asks
                     THEN ApiAfterShouldRead(api, initialized, rtc_state, wake_time_us, due)
                     ELSE api
           /\ ep' = [ep EXCEPT !.joinSeen = @ \/ zigbee_joined,
                               !.polls = IF zigbee_joined THEN @ ELSE @ + 1]
           /\ IF StartRead(zigbee_joined, sensors_read, due)
              THEN /\ pc' = "sample"
                   /\ sample_i' = 0
                   /\ valid_soil_samples' = 0
                   /\ valid_battery_samples' = 0
              ELSE /\ pc' = IF StartReport(zigbee_joined, sensors_read, data_transmitted)
                            THEN "report" ELSE "timeouts"
                   /\ UNCHANGED <<sample_i, valid_soil_samples, valid_battery_samples>>
    /\ UNCHANGED <<rtc_state, initialized, wake_time_us, sleep_timer, wake_cause,
                   clockDomain, bootClock, elapsed, sensors_read, data_transmitted,
                   readings_complete, zigbee_joined, zb, factory_new, calc, device_info,
                   alarm_wait, main_loop_task>>

\* if (elapsed >= wake_duration) break;
WakeExpired(e) == e >= WAKE_TIME_MS

\* mutant: the join timeout ends the episode of a joined session too
JoinTimedOut_IgnoresJoin(joined, e) == e >= MAX_JOIN_WAIT_MS

\* mutant: the join wait has no timeout of its own
JoinTimedOut_Never(joined, e) == FALSE

\* if (!zigbee_core_is_joined() && (now - zigbee_join_start) >= max_join_wait) break;
JoinTimedOut(joined, e) == ~joined /\ e >= MAX_JOIN_WAIT_MS

\* bottom of the wait loop: the two timeouts, then vTaskDelay(1000 ms)
Timeouts ==
    /\ pc = "timeouts"
    /\ IF WakeExpired(now) \/ JoinTimedOut(zigbee_joined, now)
       THEN /\ pc' = "enter_sleep"
            /\ UNCHANGED elapsed
       ELSE /\ pc' = "poll"
            /\ elapsed' = elapsed + POLL_DELAY_MS
    /\ alarm_wait' = AlarmAfter(alarm_wait, elapsed' - elapsed)
    /\ UNCHANGED <<rtc_state, initialized, wake_time_us, sleep_timer, wake_cause,
                   clockDomain, bootClock, now, sensors_read, data_transmitted,
                   readings_complete, sample_i, valid_soil_samples,
                   valid_battery_samples, zigbee_joined, zb, factory_new, ep, api, calc,
                   device_info, main_loop_task>>

\* read_averaged_sensors: one pass of the sampling loop (both reads, then the delay)
Sample ==
    /\ pc = "sample"
    /\ sample_i < NUM_SENSOR_SAMPLES
    /\ \E so \in SoilOutcomes, bo \in BOOLEAN :
          /\ valid_soil_samples' = valid_soil_samples + (IF SoilValid(so) THEN 1 ELSE 0)
          /\ valid_battery_samples' = valid_battery_samples + (IF bo THEN 1 ELSE 0)
          /\ elapsed' = elapsed + SoilDuration(so) + BatteryDuration
                        + (IF sample_i < NUM_SENSOR_SAMPLES - 1
                           THEN SAMPLE_INTERVAL_MS ELSE 0)
    /\ alarm_wait' = AlarmAfter(alarm_wait, elapsed' - elapsed)
    /\ sample_i' = sample_i + 1
    /\ ep' = [ep EXCEPT !.reads = @ + 2]
    /\ UNCHANGED <<rtc_state, initialized, wake_time_us, sleep_timer, pc, wake_cause,
                   clockDomain, bootClock, now, sensors_read, data_transmitted,
                   readings_complete, zigbee_joined, zb, factory_new, api, calc,
                   device_info, main_loop_task>>

\* mutant: one kind of valid sample is enough
ReadSucceeded_Either(soil, battery) == soil > 0 \/ battery > 0

\* read_averaged_sensors: the return value
ReadSucceeded(soil, battery) == soil > 0 /\ battery > 0

\* the caller's branch on read_averaged_sensors' result
ReadDone ==
    /\ pc = "sample"
    /\ sample_i = NUM_SENSOR_SAMPLES
    /\ LET ok == ReadSucceeded(valid_soil_samples, valid_battery_samples)
       IN  /\ sensors_read' = ok
           /\ pc' = IF ok THEN "report" ELSE "enter_sleep"
    /\ ep' = [ep EXCEPT !.readDone = TRUE]
    /\ UNCHANGED <<rtc_state, initialized, wake_time_us, sleep_timer, wake_cause,
                   clockDomain, bootClock, elapsed, now, data_transmitted,
                   readings_complete, sample_i, valid_soil_samples,
                   valid_battery_samples, zigbee_joined, zb, factory_new, api, calc,
                   device_info, alarm_wait, main_loop_task>>

\* report_sensor_data: one set-attribute attempt per published quantity
ReportAttempts == 4

\* report_sensor_data, then data_transmitted = true
Report ==
    /\ pc = "report"
    /\ data_transmitted' = TRUE
    /\ ep' = [ep EXCEPT !.reports = @ + ReportAttempts]
    /\ pc' = "mark"
    /\ UNCHANGED <<rtc_state, initialized, wake_time_us, sleep_timer, wake_cause,
                   clockDomain, bootClock, elapsed, now, sensors_read,
                   readings_complete, sample_i, valid_soil_samples,
                   valid_battery_samples, zigbee_joined, zb, factory_new, api, calc,
                   device_info, alarm_wait, main_loop_task>>

\* deep_sleep_mark_sensors_read(), then readings_complete = true
Mark ==
    /\ pc = "mark"
    /\ rtc_state' = MarkSensorsRead(rtc_state, wake_time_us)
    /\ readings_complete' = TRUE
    /\ ep' = [ep EXCEPT !.marks = @ + 1]
    /\ api' = ApiAfterMark(api)
    /\ pc' = "settle"
    /\ UNCHANGED <<initialized, wake_time_us, sleep_timer, wake_cause, clockDomain,
                   bootClock, elapsed, now, sensors_read, data_transmitted, sample_i,
                   valid_soil_samples, valid_battery_samples, zigbee_joined, zb,
                   factory_new, calc, device_info, alarm_wait, main_loop_task>>

\* vTaskDelay(5000 ms) after the report, then break
Settle ==
    /\ pc = "settle"
    /\ elapsed' = elapsed + SETTLE_DELAY_MS
    /\ alarm_wait' = AlarmAfter(alarm_wait, SETTLE_DELAY_MS)
    /\ pc' = "enter_sleep"
    /\ UNCHANGED <<rtc_state, initialized, wake_time_us, sleep_timer, wake_cause,
                   clockDomain, bootClock, now, sensors_read, data_transmitted,
                   readings_complete, sample_i, valid_soil_samples,
                   valid_battery_samples, zigbee_joined, zb, factory_new, ep, api, calc,
                   device_info, main_loop_task>>

\* deep_sleep_enter(): clear first_boot, arm the timer, power down
EnterSleep ==
    /\ pc = "enter_sleep"
    /\ IF ~initialized
       THEN /\ pc' = "deleted"
            /\ UNCHANGED <<rtc_state, sleep_timer, elapsed, zb, alarm_wait>>
       ELSE /\ rtc_state' = DeepSleepEnterState(rtc_state)
            /\ sleep_timer' = SleepDurationSec
            /\ elapsed' = elapsed + SLEEP_FLUSH_MS
            /\ zb' = "stopped"
            /\ alarm_wait' = 0
            /\ pc' = "asleep"
    /\ UNCHANGED <<initialized, wake_time_us, wake_cause, clockDomain, bootClock, now,
                   sensors_read, data_transmitted, readings_complete, sample_i,
                   valid_soil_samples, valid_battery_samples, zigbee_joined,
                   factory_new, ep, api, calc, device_info, main_loop_task>>

\* ------------------------------------------------------------ wake from deep sleep

\* what a wake finds in RAM: every static is back at its initialiser
RamAtBoot ==
    /\ initialized' = FALSE
    /\ wake_time_us' = 0
    /\ sleep_timer' = 0
    /\ elapsed' = 0
    /\ now' = 0
    /\ sensors_read' = FALSE
    /\ data_transmitted' = FALSE
    /\ readings_complete' = FALSE
    /\ sample_i' = 0
    /\ valid_soil_samples' = 0
    /\ valid_battery_samples' = 0
    /\ zigbee_joined' = FALSE
    /\ zb' = "stopped"
    /\ ep' = EpStart(rtc_state)
    /\ api' = ApiStart
    /\ device_info' = NoNetwork
    /\ alarm_wait' = 0
    /\ main_loop_task' = FALSE

\* the esp_timer reading of the boot that follows `gap` ms of sleep
NextBootClocks(gap) ==
    IF clockDomain = "since_boot"
    THEN BootClocks
    ELSE {(wake_time_us + d + gap) % TIME_MOD : d \in AwakeSpans}

\* the wake timer fires: the chip boots with cause ESP_SLEEP_WAKEUP_TIMER
TimerWake ==
    /\ pc = "asleep"
    /\ rtc_state.boot_count < MaxBoots
    /\ wake_cause' = "timer"
    /\ bootClock' \in NextBootClocks(sleep_timer * 1000)
    /\ pc' = "boot"
    /\ RamAtBoot
    /\ UNCHANGED <<rtc_state, clockDomain, factory_new, calc>>

\* the chip leaves deep sleep early, with a wake cause other than the timer
OtherWake ==
    /\ pc = "asleep"
    /\ rtc_state.boot_count < MaxBoots
    /\ wake_cause' = "other"
    /\ bootClock' \in NextBootClocks(0)
    /\ pc' = "boot"
    /\ RamAtBoot
    /\ UNCHANGED <<rtc_state, clockDomain, factory_new, calc>>

\* ------------------------------------------------------------ zigbee_core.c

\* mutant: signals are dispatched as soon as the stack is started
Awake_NoMainLoop == pc \notin {"boot", "asleep", "deleted", "api"}

\* esp_zb_stack_main_loop dispatches signals and alarms: its task exists and the chip
\* is not in deep sleep
Awake == main_loop_task /\ pc \notin {"asleep", "deleted", "api"}

\* zigbee_core_app_signal_handler, ESP_ZB_ZDO_SIGNAL_SKIP_STARTUP
ZbSkipStartup ==
    /\ Awake /\ zb = "startup"
    /\ zb' = "bdb_init"
    /\ UNCHANGED <<rtc_state, initialized, wake_time_us, sleep_timer, pc, wake_cause,
                   clockDomain, bootClock, elapsed, now, sensors_read, data_transmitted,
                   readings_complete, sample_i, valid_soil_samples,
                   valid_battery_samples, zigbee_joined, factory_new, ep, api, calc,
                   device_info, alarm_wait, main_loop_task>>

\* mutant: any successful start signal counts as a join
DeviceStartJoined_Always(joined, ok, fn) == IF ok THEN TRUE ELSE joined

\* the handler's FIRST_START / REBOOT case: the join flag afterwards
DeviceStartJoined(joined, ok, fn) == IF ok /\ ~fn THEN TRUE ELSE joined

\* the handler's join branches: the network fields afterwards
Captured(info, joins) == IF joins THEN StackNetwork ELSE info

\* the handler's FIRST_START / REBOOT case: what the stack does next
DeviceStartNext(ok, fn) == IF ok /\ fn THEN "steering" ELSE "idle"

\* zigbee_core_app_signal_handler, ESP_ZB_BDB_SIGNAL_DEVICE_FIRST_START / _REBOOT
ZbDeviceStart ==
    /\ Awake /\ zb = "bdb_init"
    /\ \E ok \in BOOLEAN :
          /\ zigbee_joined' = DeviceStartJoined(zigbee_joined, ok, factory_new)
          /\ device_info' = Captured(device_info, ok /\ ~factory_new)
          /\ zb' = DeviceStartNext(ok, factory_new)
          /\ ep' = [ep EXCEPT
                       !.steered = @ \/ DeviceStartNext(ok, factory_new) = "steering"]
    /\ UNCHANGED <<rtc_state, initialized, wake_time_us, sleep_timer, pc, wake_cause,
                   clockDomain, bootClock, elapsed, now, sensors_read, data_transmitted,
                   readings_complete, sample_i, valid_soil_samples,
                   valid_battery_samples, factory_new, api, calc, alarm_wait,
                   main_loop_task>>

\* mutant: a failed steering signal clears the join flag
SteeringJoined_FailureClears(joined, ok) == ok

\* the handler's STEERING case: the join flag afterwards
SteeringJoined(joined, ok) == IF ok THEN TRUE ELSE joined

\* the handler's STEERING case: a failure schedules the retry alarm
SteeringNext(ok) == IF ok THEN "idle" ELSE "retry_wait"

\* the handler's STEERING case: the delay of the alarm it schedules, 0 for none
SteeringAlarm(ok) == IF ok THEN 0 ELSE STEERING_RETRY_MS

\* mutant: the STEERING case records a reading in the persistent cycle state
ZbSteering_Marks ==
    /\ Awake /\ zb = "steering"
    /\ \E ok \in BOOLEAN :
          /\ zigbee_joined' = (ok \/ zigbee_joined)
          /\ device_info' = IF ok THEN StackNetwork ELSE device_info
          /\ zb' = IF ok THEN "idle" ELSE "retry_wait"
          /\ alarm_wait' = IF ok THEN 0 ELSE STEERING_RETRY_MS
          /\ factory_new' = IF ok THEN FALSE ELSE factory_new
          /\ rtc_state' = IF ok THEN MarkSensorsRead(rtc_state, wake_time_us)
                          ELSE rtc_state
    /\ UNCHANGED <<initialized, wake_time_us, sleep_timer, pc, wake_cause, clockDomain,
                   bootClock, elapsed, now, sensors_read, data_transmitted,
                   readings_complete, sample_i, valid_soil_samples,
                   valid_battery_samples, ep, api, calc, main_loop_task>>

\* zigbee_core_app_signal_handler, ESP_ZB_BDB_SIGNAL_STEERING
ZbSteering ==
    /\ Awake /\ zb = "steering"
    /\ \E ok \in BOOLEAN :
          /\ zigbee_joined' = SteeringJoined(zigbee_joined, ok)
          /\ device_info' = Captured(device_info, ok)
          /\ zb' = SteeringNext(ok)
          /\ alarm_wait' = SteeringAlarm(ok)
          /\ factory_new' = IF ok THEN FALSE ELSE factory_new
    /\ UNCHANGED <<rtc_state, initialized, wake_time_us, sleep_timer, pc, wake_cause,
                   clockDomain, bootClock, elapsed, now, sensors_read, data_transmitted,
                   readings_complete, sample_i, valid_soil_samples,
                   valid_battery_samples, ep, api, calc, main_loop_task>>

\* the signal types the handler tells apart
Signals == {"SKIP_STARTUP", "DEVICE_FIRST_START", "DEVICE_REBOOT", "STEERING", "OTHER"}

\* zigbee_core_app_signal_handler on one signal, whatever the session's state: the
\* join flag and the network fields afterwards, the commissioning state the stack is
\* left in ("unchanged" when the handler starts nothing) and the alarm it schedules
SignalHandler(sig, ok, fn, joined, info) ==
    CASE sig = "SKIP_STARTUP" ->
            [joined |-> joined, info |-> info, next |-> "bdb_init", alarm |-> 0]
      [] sig \in {"DEVICE_FIRST_START", "DEVICE_REBOOT"} ->
            [joined |-> DeviceStartJoined(joined, ok, fn),
             info |-> Captured(info, ok /\ ~fn),
             next |-> IF DeviceStartNext(ok, fn) = "steering" THEN "steering"
                      ELSE "unchanged",
             alarm |-> 0]
      [] sig = "STEERING" ->
            [joined |-> SteeringJoined(joined, ok),
             info |-> Captured(info, ok),
             next |-> IF ok THEN "unchanged" ELSE SteeringNext(ok),
             alarm |-> SteeringAlarm(ok)]
      [] OTHER ->
            [joined |-> joined, info |-> info, next |-> "unchanged", alarm |-> 0]

\* mutant: steering is started again after a failed start signal too
ZbRetryAlarm_AfterFailedStart ==
    /\ Awake /\ alarm_wait = 0
    /\ zb = "retry_wait" \/ (zb = "idle" /\ ~zigbee_joined)
    /\ zb' = "steering"
    /\ UNCHANGED <<rtc_state, initialized, wake_time_us, sleep_timer, pc, wake_cause,
                   clockDomain, bootClock, elapsed, now, sensors_read, data_transmitted,
                   readings_complete, sample_i, valid_soil_samples,
                   valid_battery_samples, zigbee_joined, factory_new, ep, api, calc,
                   device_info, alarm_wait, main_loop_task>>

\* bdb_start_top_level_commissioning_wrapper, run by the scheduler alarm
ZbRetryAlarm ==
    /\ Awake /\ zb = "retry_wait" /\ alarm_wait = 0
    /\ zb' = "steering"
    /\ UNCHANGED <<rtc_state, initialized, wake_time_us, sleep_timer, pc, wake_cause,
                   clockDomain, bootClock, elapsed, now, sensors_read, data_transmitted,
                   readings_complete, sample_i, valid_soil_samples,
                   valid_battery_samples, zigbee_joined, factory_new, ep, api, calc,
                   device_info, alarm_wait, main_loop_task>>

\* ------------------------------------------------------------ specification

Next ==
    \/ AppMain \/ StartMainLoopTask \/ StartWakeCycleTask
    \/ Poll \/ Timeouts \/ Sample \/ ReadDone \/ Report \/ Mark \/ Settle
    \/ EnterSleep \/ TimerWake \/ OtherWake
    \/ ZbSkipStartup \/ ZbDeviceStart \/ ZbSteering \/ ZbRetryAlarm

Spec == Init /\ [][Next]_vars

\* ------------------------------------------------------------ the scheduler alone

\* timestamps around the interval and around the wrap of the time type
TimePoints == {0, 1, READ_INTERVAL - 1, READ_INTERVAL, READ_INTERVAL + 1, TIME_MOD - 1}

\* the scheduler's functions called directly: any wake time against any record the
\* firmware can hold (first_boot set means that no reading was marked yet)
InitSched ==
    /\ \E fb \in BOOLEAN, last \in TimePoints :
          /\ fb => last = 0
          /\ rtc_state = [boot_count |-> IF fb THEN 1 ELSE 2, sensor_read_count |-> 0,
                          last_read_time |-> last, first_boot |-> fb]
    /\ initialized \in BOOLEAN
    /\ wake_time_us \in TimePoints
    /\ sleep_timer = 0
    /\ pc = "api"
    /\ wake_cause = "undefined"
    /\ clockDomain = "since_boot"
    /\ bootClock = wake_time_us
    /\ elapsed = 0
    /\ now = 0
    /\ sensors_read = FALSE
    /\ data_transmitted = FALSE
    /\ readings_complete = FALSE
    /\ sample_i = 0
    /\ valid_soil_samples = 0
    /\ valid_battery_samples = 0
    /\ zigbee_joined = FALSE
    /\ zb = "stopped"
    /\ factory_new = FALSE
    /\ ep = EpStart(rtc_state)
    /\ api = ApiStart
    /\ calc = CalcIdle
    /\ device_info = NoNetwork
    /\ alarm_wait = 0
    /\ main_loop_task = FALSE

\* a call of deep_sleep_should_read_sensors()
ApiShouldRead ==
    /\ pc = "api"
    /\ api' = ApiAfterShouldRead(api, initialized, rtc_state, wake_time_us,
                                 ShouldReadSensors(initialized, rtc_state, wake_time_us))
    /\ UNCHANGED <<rtc_state, initialized, wake_time_us, sleep_timer, pc, wake_cause,
                   clockDomain, bootClock, elapsed, now, sensors_read, data_transmitted,
                   readings_complete, sample_i, valid_soil_samples,
                   valid_battery_samples, zigbee_joined, zb, factory_new, ep, calc,
                   device_info, alarm_wait, main_loop_task>>

\* a call of deep_sleep_mark_sensors_read()
ApiMark ==
    /\ pc = "api"
    /\ rtc_state.sensor_read_count < MaxMarks
    /\ rtc_state' = MarkSensorsRead(rtc_state, wake_time_us)
    /\ api' = ApiAfterMark(api)
    /\ ep' = [ep EXCEPT !.marks = @ + 1]
    /\ UNCHANGED <<initialized, wake_time_us, sleep_timer, pc, wake_cause, clockDomain,
                   bootClock, elapsed, now, sensors_read, data_transmitted,
                   readings_complete, sample_i, valid_soil_samples,
                   valid_battery_samples, zigbee_joined, zb, factory_new, calc,
                   device_info, alarm_wait, main_loop_task>>

\* a call of deep_sleep_time_until_next_reading()
ApiTimeUntil ==
    /\ pc = "api"
    /\ calc' = [fn |-> "time_until_next_reading", step |-> "ret",
                in |-> [init |-> initialized, st |-> rtc_state, t |-> wake_time_us],
                out |-> TimeUntilNextReading(initialized, rtc_state, wake_time_us)]
    /\ UNCHANGED <<rtc_state, initialized, wake_time_us, sleep_timer, pc, wake_cause,
                   clockDomain, bootClock, elapsed, now, sensors_read,
                   data_transmitted, readings_complete, sample_i, valid_soil_samples,
                   valid_battery_samples, zigbee_joined, zb, factory_new, ep, api,
                   device_info, alarm_wait, main_loop_task>>

\* the caller's deep_sleep_state_t before a call of deep_sleep_get_state
CallerState ==
    [boot_count |-> 0, sensor_read_count |-> 0, last_read_time |-> 0,
     first_boot |-> FALSE]

\* a call of deep_sleep_get_state(&state), or of deep_sleep_get_state(NULL)
ApiGetState ==
    /\ pc = "api"
    /\ \E null \in BOOLEAN :
          calc' = [fn |-> "deep_sleep_get_state", step |-> "ret",
                   in |-> [init |-> initialized, st |-> rtc_state, null |-> null,
                           state |-> CallerState],
                   out |-> DeepSleepGetState(initialized, rtc_state, null, CallerState)]
    /\ UNCHANGED <<rtc_state, initialized, wake_time_us, sleep_timer, pc, wake_cause,
                   clockDomain, bootClock, elapsed, now, sensors_read,
                   data_transmitted, readings_complete, sample_i, valid_soil_samples,
                   valid_battery_samples, zigbee_joined, zb, factory_new, ep, api,
                   device_info, alarm_wait, main_loop_task>>

\* a call of deep_sleep_enter()
ApiEnter ==
    /\ pc = "api"
    /\ LET r == DeepSleepEnter(initialized, rtc_state, sleep_timer)
       IN  /\ calc' = [fn |-> "deep_sleep_enter",
                       step |-> IF r.asleep THEN "asleep" ELSE "ret",
                       in |-> [init |-> initialized, st |-> rtc_state,
                               timer |-> sleep_timer],
                       out |-> r.ret]
           /\ rtc_state' = r.st
           /\ sleep_timer' = r.timer
           /\ pc' = IF r.asleep THEN "asleep" ELSE pc
    /\ UNCHANGED <<initialized, wake_time_us, wake_cause, clockDomain, bootClock,
                   elapsed, now, sensors_read, data_transmitted, readings_complete,
                   sample_i, valid_soil_samples, valid_battery_samples, zigbee_joined,
                   zb, factory_new, ep, api, device_info, alarm_wait, main_loop_task>>

NextSched == ApiShouldRead \/ ApiMark \/ ApiTimeUntil \/ ApiGetState \/ ApiEnter

SchedSpec == InitSched /\ [][NextSched]_vars

\* ------------------------------------------------------------ sensor arithmetic

\* floats are kept exact: a percentage of the soil sensor counts in 1/MOISTURE_SPAN %,
\* a battery percentage in 1/PCT_SCALE %, a voltage in mV, a quotient as num/den
SOIL_VALUE_DRY == 329
SOIL_VALUE_WET == 1050
RAW_MAX == 65535
MOISTURE_SPAN == SOIL_VALUE_WET - SOIL_VALUE_DRY

USB_PRESENT_MV == 4300
BATT_VOLTAGE_MAX == 4200
BATT_VOLTAGE_MIN == 3000
PCT_SCALE == 60

\* mutant: no clamp at the dry end
MoisturePercent_NoLowClamp(raw) ==
    LET pct == (raw - SOIL_VALUE_DRY) * 100
    IN  IF pct > 100 * MOISTURE_SPAN THEN 100 * MOISTURE_SPAN ELSE pct

\* soil_sensor_read_moisture: raw count to percent (in 1/MOISTURE_SPAN %)
MoisturePercent(raw) ==
    LET pct == (raw - SOIL_VALUE_DRY) * 100
    IN  IF pct < 0 THEN 0
        ELSE IF pct > 100 * MOISTURE_SPAN THEN 100 * MOISTURE_SPAN
        ELSE pct

\* mutant: the 3.7 V - 3.9 V segment starts at 45 %
BatteryCurve_Gap(mv) ==
    IF mv > 3900 THEN 80 * PCT_SCALE + ((mv - 3900) * 20 * PCT_SCALE) \div 300
    ELSE IF mv > 3700 THEN 45 * PCT_SCALE + ((mv - 3700) * 30 * PCT_SCALE) \div 200
    ELSE IF mv > 3400 THEN 20 * PCT_SCALE + ((mv - 3400) * 30 * PCT_SCALE) \div 300
    ELSE ((mv - BATT_VOLTAGE_MIN) * 20 * PCT_SCALE) \div 400

\* the discharge curve of voltage_to_percentage between the two clamps
BatteryCurve(mv) ==
    IF mv > 3900 THEN 80 * PCT_SCALE + ((mv - 3900) * 20 * PCT_SCALE) \div 300
    ELSE IF mv > 3700 THEN 50 * PCT_SCALE + ((mv - 3700) * 30 * PCT_SCALE) \div 200
    ELSE IF mv > 3400 THEN 20 * PCT_SCALE + ((mv - 3400) * 30 * PCT_SCALE) \div 300
    ELSE ((mv - BATT_VOLTAGE_MIN) * 20 * PCT_SCALE) \div 400

\* mutant: the curve is used above the full-charge voltage too
VoltageToPercentage_NoClamp(mv) ==
    IF mv <= BATT_VOLTAGE_MIN THEN 0 ELSE BatteryCurve(mv)

\* voltage_to_percentage (result in 1/PCT_SCALE %)
VoltageToPercentage(mv) ==
    IF mv > USB_PRESENT_MV THEN 100 * PCT_SCALE
    ELSE IF mv >= BATT_VOLTAGE_MAX THEN 100 * PCT_SCALE
    ELSE IF mv <= BATT_VOLTAGE_MIN THEN 0
    ELSE BatteryCurve(mv)

\* soil_sensor_read_all on one transaction: o is what the bus did, raw and temp what
\* the sensor would deliver
SoilReadAll(in) ==
    [ret |-> SoilValid(in.o),
     moisture_percent |-> IF SoilValid(in.o) THEN MoisturePercent(in.raw) ELSE 0,
     temperature_c |-> IF in.o = "ok" THEN in.temp ELSE 0]

\* mutant: a failed temperature read fails the whole read
SoilSensorReadAll_FailOnTemp(in, data) ==
    IF in.null THEN [ret |-> "ESP_ERR_INVALID_ARG", data |-> data, subreads |-> <<>>]
    ELSE IF in.o = "nack"
    THEN [ret |-> "ESP_FAIL", data |-> data, subreads |-> <<"moisture">>]
    ELSE IF in.o = "temp_timeout"
    THEN [ret |-> "ESP_FAIL", data |-> data, subreads |-> <<"moisture", "temperature">>]
    ELSE [ret |-> "ESP_OK",
          data |-> [valid |-> TRUE,
                    moisture_percent |-> SoilReadAll(in).moisture_percent,
                    temperature_c |-> SoilReadAll(in).temperature_c],
          subreads |-> <<"moisture", "temperature">>]

\* soil_sensor_read_all as its caller sees it: the status, the caller's record after
\* the call (data is the record before it) and the sub-reads that were attempted
SoilSensorReadAll(in, data) ==
    IF in.null THEN [ret |-> "ESP_ERR_INVALID_ARG", data |-> data, subreads |-> <<>>]
    ELSE IF in.o = "nack"
    THEN [ret |-> "ESP_FAIL", data |-> data, subreads |-> <<"moisture">>]
    ELSE [ret |-> "ESP_OK",
          data |-> [valid |-> TRUE,
                    moisture_percent |-> SoilReadAll(in).moisture_percent,
                    temperature_c |-> SoilReadAll(in).temperature_c],
          subreads |-> <<"moisture", "temperature">>]

\* battery_read on one conversion burst
BatteryRead(in) ==
    [ret |-> in.ok, voltage |-> in.mv, percentage |-> VoltageToPercentage(in.mv)]

\* mutant: the sum is divided by the number of samples taken
Quotient_AllSamples(sum, valid) == [num |-> sum, den |-> NUM_SENSOR_SAMPLES]

\* sum / valid
Quotient(sum, valid) == [num |-> sum, den |-> valid]

\* float x = 0.0f
Zero == [num |-> 0, den |-> 1]

\* read_averaged_sensors: the sums and counts after samples i..Len(samples)
RECURSIVE SampleLoop(_, _, _)
SampleLoop(samples, i, acc) ==
    IF i > Len(samples) THEN acc
    ELSE LET soil == SoilReadAll(samples[i].soil)
             batt == BatteryRead(samples[i].battery)
             a1 == IF soil.ret
                   THEN [acc EXCEPT !.moisture_sum = @ + soil.moisture_percent,
                                    !.temp_sum = @ + soil.temperature_c,
                                    !.valid_soil_samples = @ + 1]
                   ELSE acc
             a2 == IF batt.ret
                   THEN [a1 EXCEPT !.voltage_sum = @ + batt.voltage,
                                   !.percent_sum = @ + batt.percentage,
                                   !.valid_battery_samples = @ + 1]
                   ELSE a1
         IN  SampleLoop(samples, i + 1, a2)

\* read_averaged_sensors: the return value and the caller's four averages, which
\* are written only where a valid sample exists
ReadAveragedSensors(samples) ==
    LET acc == SampleLoop(samples, 1,
                   [moisture_sum |-> 0, temp_sum |-> 0, voltage_sum |-> 0,
                    percent_sum |-> 0, valid_soil_samples |-> 0,
                    valid_battery_samples |-> 0])
        vs == acc.valid_soil_samples
        vb == acc.valid_battery_samples
    IN  [ret |-> ReadSucceeded(vs, vb),
         avg_moisture |-> IF vs > 0 THEN Quotient(acc.moisture_sum, vs) ELSE Zero,
         avg_temp |-> IF vs > 0 THEN Quotient(acc.temp_sum, vs) ELSE Zero,
         avg_voltage |-> IF vb > 0 THEN Quotient(acc.voltage_sum, vb) ELSE Zero,
         avg_percent |-> IF vb > 0 THEN Quotient(acc.percent_sum, vb) ELSE Zero]

\* ------------------------------------------------------------ report_sensor_data

ADC_RANGE_MV == 3300
BATT_VOLTAGE_DIVIDER == 2
BATTERY_PERCENT_WIRE_MAX == 200
UINT8_MAX == 255
HUMIDITY_WIRE_MAX == 10000
INT16_MIN == -32768
INT16_MAX == 32767

\* a float converted to an integer type: the fraction is dropped, towards zero
Trunc(n, d) == IF n >= 0 THEN n \div d ELSE -((-n) \div d)

\* what the 16 low bits of x read as
Wrap16(x) == ((x - INT16_MIN) % (INT16_MAX - INT16_MIN + 1)) + INT16_MIN

\* (int16_t) of a float whose integer part is x: undefined outside the type's range,
\* where the build may keep the low bits or saturate
ToInt16(x) ==
    IF x >= INT16_MIN /\ x <= INT16_MAX THEN {x} ELSE {Wrap16(x), INT16_MIN, INT16_MAX}

\* (uint16_t)(percent * 2.0f), capped
BatteryPercentWire(percent) ==
    LET raw == (2 * percent.num) \div (PCT_SCALE * percent.den)
    IN  IF raw <= BATTERY_PERCENT_WIRE_MAX THEN raw ELSE BATTERY_PERCENT_WIRE_MAX

\* (uint16_t)(voltage * 10.0f)
BatteryVoltageRaw(voltage) == voltage.num \div (100 * voltage.den)

\* zigbee_core_update_soil_moisture: (uint16_t)(moisture_percent * 100.0f), clamped
HumidityWire(moisture) ==
    LET v == (100 * moisture.num) \div (MOISTURE_SPAN * moisture.den)
    IN  IF v > HUMIDITY_WIRE_MAX THEN HUMIDITY_WIRE_MAX ELSE v

\* zigbee_core_update_soil_temperature: (int16_t)(temp_celsius * 100.0f)
TemperatureWire(temp) == ToInt16(Trunc(100 * temp.num, temp.den))

\* the values report_sensor_data can hand to the stack for one averaged reading
WireValues(avg) ==
    {[battery_percent |-> BatteryPercentWire(avg.avg_percent),
      battery_voltage |-> BatteryVoltageRaw(avg.avg_voltage),
      moisture |-> HumidityWire(avg.avg_moisture),
      temperature |-> t] : t \in TemperatureWire(avg.avg_temp)}

\* one esp_zb_zcl_set_attribute_val call: the attribute, the value, the stack's answer
Attempt(attr, wire, status) ==
    [attr |-> attr, value |-> wire[attr], success |-> status[attr]]

\* mutant: the first attribute the stack refuses ends the report
ReportSensorData_StopOnFailure(avg, status, wire) ==
    LET all == <<Attempt("battery_percent", wire, status),
                 Attempt("battery_voltage", wire, status),
                 Attempt("moisture", wire, status),
                 Attempt("temperature", wire, status)>>
        bad == {i \in 1..4 : ~all[i].success}
    IN  IF bad = {} THEN all
        ELSE SubSeq(all, 1, CHOOSE i \in bad : \A j \in bad : i <= j)

\* report_sensor_data: the set_attribute calls it makes, in order
ReportSensorData(avg, status, wire) ==
    <<Attempt("battery_percent", wire, status)>>
    \o (IF wire.battery_voltage <= UINT8_MAX
        THEN <<Attempt("battery_voltage", wire, status)>> ELSE <<>>)
    \o <<Attempt("moisture", wire, status), Attempt("temperature", wire, status)>>

\* ------------------------------------------------------------ zb_attribute_handler

HA_ESP_SENSOR_ENDPOINT == 1

\* mutant: the handler does not look at the cluster
AttributeHandler_AnyCluster(message, led) ==
    IF message.ptr = "null" THEN [ret |-> "ESP_FAIL", led_state |-> led]
    ELSE IF message.status # "SUCCESS"
         THEN [ret |-> "ESP_ERR_INVALID_ARG", led_state |-> led]
    ELSE IF /\ message.dst_endpoint = HA_ESP_SENSOR_ENDPOINT
            /\ message.attr_id = "ON_OFF" /\ message.type = "BOOL"
         THEN [ret |-> "ESP_OK",
               led_state |-> (message.value = "true")]
    ELSE [ret |-> "ESP_OK", led_state |-> led]

\* zb_attribute_handler with set_led: the return value and the indicator afterwards
AttributeHandler(message, led) ==
    IF message.ptr = "null" THEN [ret |-> "ESP_FAIL", led_state |-> led]
    ELSE IF message.status # "SUCCESS"
         THEN [ret |-> "ESP_ERR_INVALID_ARG", led_state |-> led]
    ELSE IF /\ message.dst_endpoint = HA_ESP_SENSOR_ENDPOINT
            /\ message.cluster = "ON_OFF"
            /\ message.attr_id = "ON_OFF" /\ message.type = "BOOL"
         THEN [ret |-> "ESP_OK",
               led_state |-> (message.value = "true")]
    ELSE [ret |-> "ESP_OK", led_state |-> led]

\* ------------------------------------------------------------ battery_read

\* one pass of the sampling loop of read_battery_voltage: conv[i] says whether
\* adc_oneshot_read and adc_cali_raw_to_voltage succeed and what adc_mv would be
RECURSIVE ConversionLoop(_, _, _, _)
ConversionLoop(cali_handle, conv, i, acc) ==
    IF i > BATTERY_SAMPLES_AVG THEN acc
    ELSE ConversionLoop(cali_handle, conv, i + 1,
                        IF conv[i].read /\ cali_handle /\ conv[i].cali
                        THEN [total_mv |-> acc.total_mv + conv[i].mv,
                              valid_samples |-> acc.valid_samples + 1]
                        ELSE acc)

\* mutant: the sum is divided by the number of conversions taken
ReadBatteryVoltage_AllConversions(handle, cali_handle, conv) ==
    LET acc == ConversionLoop(cali_handle, conv, 1, [total_mv |-> 0, valid_samples |-> 0])
    IN  IF ~handle THEN [ret |-> "ESP_ERR_INVALID_STATE", voltage |-> 0]
        ELSE IF acc.valid_samples = 0 THEN [ret |-> "ESP_FAIL", voltage |-> 0]
        ELSE [ret |-> "ESP_OK",
              voltage |-> Trunc(acc.total_mv, BATTERY_SAMPLES_AVG) * BATT_VOLTAGE_DIVIDER]

\* read_battery_voltage: the battery voltage in mV (0 stands for an unwritten *voltage)
ReadBatteryVoltage(handle, cali_handle, conv) ==
    LET acc == ConversionLoop(cali_handle, conv, 1, [total_mv |-> 0, valid_samples |-> 0])
    IN  IF ~handle THEN [ret |-> "ESP_ERR_INVALID_STATE", voltage |-> 0]
        ELSE IF acc.valid_samples = 0 THEN [ret |-> "ESP_FAIL", voltage |-> 0]
        ELSE [ret |-> "ESP_OK",
              voltage |-> Trunc(acc.total_mv, acc.valid_samples) * BATT_VOLTAGE_DIVIDER]

\* battery_read(&voltage, &percentage)
BatteryReadCall(in) ==
    LET v == ReadBatteryVoltage(in.adc_handle, in.adc_cali_handle, in.conv)
    IN  IF in.null THEN [ret |-> "ESP_ERR_INVALID_ARG", voltage |-> 0, percentage |-> 0]
        ELSE IF v.ret # "ESP_OK" THEN [ret |-> v.ret, voltage |-> 0, percentage |-> 0]
        ELSE [ret |-> "ESP_OK", voltage |-> v.voltage,
              percentage |-> VoltageToPercentage(v.voltage)]

\* ------------------------------------------------------------ the functions alone

\* what one soil transaction can be: not answered, answered, or answered for the
\* moisture only
SoilInputs ==
    {[o |-> "nack", raw |-> 600, temp |-> 20], [o |-> "ok", raw |-> 600, temp |-> 20],
     [o |-> "temp_timeout", raw |-> 900, temp |-> 20]}

\* what one battery read can be: no valid conversion, or a voltage
BatteryInputs ==
    {[ok |-> FALSE, mv |-> 3700], [ok |-> TRUE, mv |-> 3700], [ok |-> TRUE, mv |-> 4100]}

\* what the caller's soil_data_t can hold before a call: zeroes, or an older reading
CallerRecords ==
    {[valid |-> FALSE, moisture_percent |-> 0, temperature_c |-> 0],
     [valid |-> TRUE, moisture_percent |-> 5 * MOISTURE_SPAN, temperature_c |-> 31]}

\* what the ten conversions of one battery_read can do; conversion i would deliver
\* its own adc_mv, so that a mean tells which conversions went into it
ConversionOutcomes == {"read_fail", "cali_fail", "ok"}

ConversionMv(i) == 1800 + 2^i

Conversions(o) ==
    [i \in 1..BATTERY_SAMPLES_AVG |->
        [read |-> o[i] # "read_fail", cali |-> o[i] = "ok", mv |-> ConversionMv(i)]]

SampleInputs == [soil : SoilInputs, battery : BatteryInputs]

\* what the stack can answer to the four set_attribute calls
Statuses ==
    [battery_percent : BOOLEAN, battery_voltage : BOOLEAN, moisture : BOOLEAN,
     temperature : BOOLEAN]

AllSucceed ==
    [battery_percent |-> TRUE, battery_voltage |-> TRUE, moisture |-> TRUE,
     temperature |-> TRUE]

\* an averaged reading in the middle of every range
MidReading ==
    [avg_moisture |-> Quotient(37 * MOISTURE_SPAN, 1), avg_temp |-> Quotient(20, 1),
     avg_voltage |-> Quotient(3700, 1), avg_percent |-> Quotient(50 * PCT_SCALE, 1)]

\* the messages the stack can hand to the attribute callback
Messages ==
    [ptr : {"null", "message"}, status : {"SUCCESS", "FAIL"},
     dst_endpoint : {HA_ESP_SENSOR_ENDPOINT, 2}, cluster : {"ON_OFF", "IDENTIFY"},
     attr_id : {"ON_OFF", "ON_TIME"}, type : {"BOOL", "U16"},
     value : {"null", "true", "false"}]

\* a call is pending with its arguments
Call(fn, in) == [fn |-> fn, step |-> "call", in |-> in, out |-> 0]

InitCalc ==
    /\ \/ \E raw \in 0..RAW_MAX : calc = Call("soil_sensor_read_moisture", raw)
       \/ \E mv \in 0..MaxMilliVolt : calc = Call("voltage_to_percentage", mv)
       \/ \E samples \in [1..NUM_SENSOR_SAMPLES -> SampleInputs] :
             calc = Call("read_averaged_sensors", samples)
       \/ \E n \in (-MaxTempSum)..MaxTempSum, d \in 1..NUM_SENSOR_SAMPLES :
             calc = Call("report_sensor_data",
                         [avg |-> [MidReading EXCEPT !.avg_temp = Quotient(n, d)],
                          status |-> AllSucceed])
       \/ \E mv \in 0..(ADC_RANGE_MV * BATT_VOLTAGE_DIVIDER) :
             calc = Call("report_sensor_data",
                         [avg |-> [MidReading EXCEPT !.avg_voltage = Quotient(mv, 1)],
                          status |-> AllSucceed])
       \/ \E m \in 0..(100 * MOISTURE_SPAN) :
             calc = Call("report_sensor_data",
                         [avg |-> [MidReading EXCEPT !.avg_moisture = Quotient(m, 1)],
                          status |-> AllSucceed])
       \/ \E q \in 0..(100 * PCT_SCALE) :
             calc = Call("report_sensor_data",
                         [avg |-> [MidReading EXCEPT !.avg_percent = Quotient(q, 1)],
                          status |-> AllSucceed])
       \/ \E status \in Statuses :
             calc = Call("report_sensor_data", [avg |-> MidReading, status |-> status])
       \/ \E message \in Messages, led \in BOOLEAN :
             calc = Call("zb_attribute_handler", [message |-> message, led_state |-> led])
       \/ \E s \in SoilInputs, data \in CallerRecords, null \in BOOLEAN :
             calc = Call("soil_sensor_read_all",
                         [o |-> s.o, raw |-> s.raw, temp |-> s.temp, data |-> data,
                          null |-> null])
       \/ \E o \in [1..BATTERY_SAMPLES_AVG -> ConversionOutcomes] :
             calc = Call("battery_read",
                         [adc_handle |-> TRUE, adc_cali_handle |-> TRUE, null |-> FALSE,
                          conv |-> Conversions(o)])
       \/ \E o \in [1..BATTERY_SAMPLES_AVG -> {"read_fail", "ok"}] :
             calc = Call("battery_read",
                         [adc_handle |-> TRUE, adc_cali_handle |-> FALSE, null |-> FALSE,
                          conv |-> Conversions(o)])
       \/ \E handle \in BOOLEAN, cali_handle \in BOOLEAN, null \in BOOLEAN :
             calc = Call("battery_read",
                         [adc_handle |-> handle, adc_cali_handle |-> cali_handle,
                          null |-> null,
                          conv |-> Conversions([i \in 1..BATTERY_SAMPLES_AVG |-> "ok"])])
       \/ \E sig \in Signals, ok \in BOOLEAN, fn \in BOOLEAN, joined \in BOOLEAN :
             calc = Call("zigbee_core_app_signal_handler",
                         [sig |-> sig, ok |-> ok, factory_new |-> fn, joined |-> joined,
                          info |-> IF joined THEN StackNetwork ELSE NoNetwork])
    /\ rtc_state = RtcPowerOn
    /\ initialized = FALSE
    /\ wake_time_us = 0
    /\ sleep_timer = 0
    /\ pc = "api"
    /\ wake_cause = "undefined"
    /\ clockDomain = "since_boot"
    /\ bootClock = 1
    /\ elapsed = 0
    /\ now = 0
    /\ sensors_read = FALSE
    /\ data_transmitted = FALSE
    /\ readings_complete = FALSE
    /\ sample_i = 0
    /\ valid_soil_samples = 0
    /\ valid_battery_samples = 0
    /\ zigbee_joined = FALSE
    /\ zb = "stopped"
    /\ factory_new = FALSE
    /\ ep = EpStart(RtcPowerOn)
    /\ api = ApiStart
    /\ device_info = NoNetwork
    /\ alarm_wait = 0
    /\ main_loop_task = FALSE

CalcUnchanged ==
    UNCHANGED <<rtc_state, initialized, wake_time_us, sleep_timer, pc, wake_cause,
                clockDomain, bootClock, elapsed, now, sensors_read, data_transmitted,
                readings_complete, sample_i, valid_soil_samples, valid_battery_samples,
                zigbee_joined, zb, factory_new, ep, api, device_info, alarm_wait,
                main_loop_task>>

\* soil_sensor_read_moisture converts the raw count it read
CalcMoisture ==
    /\ calc.fn = "soil_sensor_read_moisture" /\ calc.step = "call"
    /\ calc' = [calc EXCEPT !.step = "ret", !.out = MoisturePercent(calc.in)]
    /\ CalcUnchanged

\* voltage_to_percentage
CalcVoltage ==
    /\ calc.fn = "voltage_to_percentage" /\ calc.step = "call"
    /\ calc' = [calc EXCEPT !.step = "ret", !.out = VoltageToPercentage(calc.in)]
    /\ CalcUnchanged

\* read_averaged_sensors over the five samples
CalcReadAveraged ==
    /\ calc.fn = "read_averaged_sensors" /\ calc.step = "call"
    /\ calc' = [calc EXCEPT !.step = "ret", !.out = ReadAveragedSensors(calc.in)]
    /\ CalcUnchanged

\* wake_cycle_task after the read: report_sensor_data gets the four averages, or the
\* task breaks out without a report
CalcReport ==
    /\ calc.fn = "read_averaged_sensors" /\ calc.step = "ret"
    /\ calc' = [calc EXCEPT !.step = IF calc.out.ret THEN "reported" ELSE "no_report"]
    /\ CalcUnchanged

\* the caller hands the averages it got to report_sensor_data
CalcReportCall ==
    /\ calc.fn = "read_averaged_sensors" /\ calc.step = "reported"
    /\ \E status \in Statuses :
          calc' = Call("report_sensor_data",
                       [avg |-> [avg_moisture |-> calc.out.avg_moisture,
                                 avg_temp |-> calc.out.avg_temp,
                                 avg_voltage |-> calc.out.avg_voltage,
                                 avg_percent |-> calc.out.avg_percent],
                        status |-> status])
    /\ CalcUnchanged

\* report_sensor_data runs
CalcReportData ==
    /\ calc.fn = "report_sensor_data" /\ calc.step = "call"
    /\ \E wire \in WireValues(calc.in.avg) :
          calc' = [calc EXCEPT
                      !.step = "ret",
                      !.out = ReportSensorData(calc.in.avg, calc.in.status, wire)]
    /\ CalcUnchanged

\* data_transmitted = true; deep_sleep_mark_sensors_read(); readings_complete = true:
\* whatever the report did
CalcMarkRead ==
    /\ calc.fn = "report_sensor_data" /\ calc.step = "ret"
    /\ calc' = [calc EXCEPT !.step = "marked"]
    /\ rtc_state' = MarkSensorsRead(rtc_state, wake_time_us)
    /\ data_transmitted' = TRUE
    /\ readings_complete' = TRUE
    /\ UNCHANGED <<initialized, wake_time_us, sleep_timer, pc, wake_cause, clockDomain,
                   bootClock, elapsed, now, sensors_read, sample_i, valid_soil_samples,
                   valid_battery_samples, zigbee_joined, zb, factory_new, ep, api,
                   device_info, alarm_wait, main_loop_task>>

\* the stack calls zb_attribute_handler
CalcAttribute ==
    /\ calc.fn = "zb_attribute_handler" /\ calc.step = "call"
    /\ calc' = [calc EXCEPT !.step = "ret",
                            !.out = AttributeHandler(calc.in.message, calc.in.led_state)]
    /\ CalcUnchanged

\* soil_sensor_read_all(&data)
CalcSoilReadAll ==
    /\ calc.fn = "soil_sensor_read_all" /\ calc.step = "call"
    /\ calc' = [calc EXCEPT !.step = "ret",
                            !.out = SoilSensorReadAll(calc.in, calc.in.data)]
    /\ CalcUnchanged

\* battery_read(&voltage, &percentage)
CalcBatteryRead ==
    /\ calc.fn = "battery_read" /\ calc.step = "call"
    /\ calc' = [calc EXCEPT !.step = "ret", !.out = BatteryReadCall(calc.in)]
    /\ CalcUnchanged

\* the stack hands one signal to zigbee_core_app_signal_handler
CalcSignal ==
    /\ calc.fn = "zigbee_core_app_signal_handler" /\ calc.step = "call"
    /\ calc' = [calc EXCEPT
                   !.step = "ret",
                   !.out = SignalHandler(calc.in.sig, calc.in.ok, calc.in.factory_new,
                                         calc.in.joined, calc.in.info)]
    /\ CalcUnchanged

NextCalc ==
    \/ CalcMoisture \/ CalcVoltage \/ CalcReadAveraged \/ CalcReport
    \/ CalcReportCall \/ CalcReportData \/ CalcMarkRead \/ CalcAttribute
    \/ CalcSoilReadAll \/ CalcBatteryRead \/ CalcSignal

CalcSpec == InitCalc /\ [][NextCalc]_vars

\* ------------------------------------------------------------ the handler's writes

\* The firmware's own reader of the join flag, wake_cycle_task, runs below the
\* priority of the main-loop task, which is why Spec takes a handler call as one
\* step. Here the join branches of the handler are taken assignment by assignment,
\* next to a task of any priority that calls zigbee_core_is_joined and
\* zigbee_core_get_device_info: nothing in zigbee_core.c (no lock, no critical
\* section, no atomic) orders the two tasks' accesses to device_info.

\* the members of zigbee_device_info_t the handler writes, in declaration order
InfoFields == <<"zigbee_joined", "pan_id", "channel", "short_address">>

\* the caller's zigbee_device_info_t before a call
CallerInfo == [zigbee_joined |-> FALSE, pan_id |-> 0, channel |-> 0, short_address |-> 0]

\* what a read of one member of device_info finds
InfoField(f) == IF f = "zigbee_joined" THEN zigbee_joined ELSE device_info[f]

InitInterleaved ==
    /\ rtc_state = RtcPowerOn
    /\ initialized = TRUE
    /\ wake_time_us = 1
    /\ sleep_timer = 0
    /\ pc = "api"
    /\ wake_cause = "undefined"
    /\ clockDomain = "since_boot"
    /\ bootClock = 1
    /\ elapsed = 0
    /\ now = 0
    /\ sensors_read = FALSE
    /\ data_transmitted = FALSE
    /\ readings_complete = FALSE
    /\ sample_i = 0
    /\ valid_soil_samples = 0
    /\ valid_battery_samples = 0
    /\ zigbee_joined = FALSE
    /\ zb = "bdb_init"
    /\ factory_new \in BOOLEAN
    /\ ep = EpStart(RtcPowerOn)
    /\ api = ApiStart
    /\ calc = CalcIdle
    /\ device_info = NoNetwork
    /\ alarm_wait = 0
    /\ main_loop_task = TRUE

InterleavedUnchanged ==
    UNCHANGED <<rtc_state, initialized, wake_time_us, sleep_timer, pc, wake_cause,
                clockDomain, bootClock, elapsed, now, sensors_read, data_transmitted,
                readings_complete, sample_i, valid_soil_samples, valid_battery_samples,
                ep, api, main_loop_task>>

\* FIRST_START / REBOOT: up to and including device_info.zigbee_joined = true
HandlerDeviceStart ==
    /\ zb = "bdb_init"
    /\ \E ok \in BOOLEAN :
          /\ zigbee_joined' = DeviceStartJoined(zigbee_joined, ok, factory_new)
          /\ zb' = IF ok /\ ~factory_new THEN "joined_written"
                   ELSE DeviceStartNext(ok, factory_new)
    /\ UNCHANGED <<device_info, factory_new, alarm_wait, calc>>
    /\ InterleavedUnchanged

\* STEERING: up to and including device_info.zigbee_joined = true, or the retry alarm
HandlerSteering ==
    /\ zb = "steering"
    /\ \E ok \in BOOLEAN :
          /\ zigbee_joined' = SteeringJoined(zigbee_joined, ok)
          /\ zb' = IF ok THEN "joined_written" ELSE SteeringNext(ok)
          /\ alarm_wait' = SteeringAlarm(ok)
          /\ factory_new' = IF ok THEN FALSE ELSE factory_new
    /\ UNCHANGED <<device_info, calc>>
    /\ InterleavedUnchanged

\* device_info.pan_id = esp_zb_get_pan_id();
HandlerWritePanId ==
    /\ zb = "joined_written"
    /\ device_info' = [device_info EXCEPT !.pan_id = StackNetwork.pan_id]
    /\ zb' = "pan_id_written"
    /\ UNCHANGED <<zigbee_joined, factory_new, alarm_wait, calc>>
    /\ InterleavedUnchanged

\* device_info.channel = esp_zb_get_current_channel();
HandlerWriteChannel ==
    /\ zb = "pan_id_written"
    /\ device_info' = [device_info EXCEPT !.channel = StackNetwork.channel]
    /\ zb' = "channel_written"
    /\ UNCHANGED <<zigbee_joined, factory_new, alarm_wait, calc>>
    /\ InterleavedUnchanged

\* device_info.short_address = esp_zb_get_short_address(); and the handler returns
HandlerWriteShortAddress ==
    /\ zb = "channel_written"
    /\ device_info' = [device_info EXCEPT !.short_address = StackNetwork.short_address]
    /\ zb' = "idle"
    /\ UNCHANGED <<zigbee_joined, factory_new, alarm_wait, calc>>
    /\ InterleavedUnchanged

\* the retry alarm of a failed steering attempt comes due
HandlerRetryAlarm ==
    /\ zb = "retry_wait"
    /\ zb' = "steering"
    /\ alarm_wait' = 0
    /\ UNCHANGED <<zigbee_joined, device_info, factory_new, calc>>
    /\ InterleavedUnchanged

\* the other task is between two calls
ReaderIdle == calc.step \in {"idle", "ret"}

\* the other task calls zigbee_core_is_joined()
ReaderIsJoined ==
    /\ ReaderIdle
    /\ calc' = [fn |-> "zigbee_core_is_joined", step |-> "ret", in |-> 0,
                out |-> [CallerInfo EXCEPT !.zigbee_joined = zigbee_joined]]
    /\ UNCHANGED <<zigbee_joined, device_info, zb, factory_new, alarm_wait>>
    /\ InterleavedUnchanged

\* the other task calls zigbee_core_get_device_info(&info): in is the member that
\* *info = device_info copies next
ReaderGetDeviceInfo ==
    /\ ReaderIdle
    /\ calc' = [fn |-> "zigbee_core_get_device_info", step |-> "copy", in |-> 1,
                out |-> CallerInfo]
    /\ UNCHANGED <<zigbee_joined, device_info, zb, factory_new, alarm_wait>>
    /\ InterleavedUnchanged

\* *info = device_info, one member
ReaderCopy ==
    /\ calc.fn = "zigbee_core_get_device_info" /\ calc.step = "copy"
    /\ calc' = [calc EXCEPT
                   !.out = [@ EXCEPT ![InfoFields[calc.in]] = InfoField(InfoFields[calc.in])],
                   !.in = IF calc.in < Len(InfoFields) THEN @ + 1 ELSE @,
                   !.step = IF calc.in < Len(InfoFields) THEN "copy" ELSE "ret"]
    /\ UNCHANGED <<zigbee_joined, device_info, zb, factory_new, alarm_wait>>
    /\ InterleavedUnchanged

NextInterleaved ==
    \/ HandlerDeviceStart \/ HandlerSteering \/ HandlerWritePanId
    \/ HandlerWriteChannel \/ HandlerWriteShortAddress \/ HandlerRetryAlarm
    \/ ReaderIsJoined \/ ReaderGetDeviceInfo \/ ReaderCopy

InterleavedSpec == InitInterleaved /\ [][NextInterleaved]_vars

\* ------------------------------------------------------------ claims

\* C1: every wake episode calls deep_sleep_enter() no later than WAKE_TIME_MS (60 s)
\* after the episode's start, whatever the join time and the sensor outcomes.
C1_SleepWithinCeiling == pc = "enter_sleep" => elapsed <= WAKE_TIME_MS

\* C2: no sensor read is attempted before the task has observed
\* zigbee_core_is_joined() true: reads of this episode imply an earlier joined poll.
C2_JoinBeforeRead == ep.reads > 0 => ep.joinSeen

C2_Witness == ep.polls >= 2 /\ ep.reads > 0

GoodSamples == valid_soil_samples > 0 /\ valid_battery_samples > 0

C4_MarkOnlyAfterValidRead ==
    /\ ep.marks > 0 => GoodSamples
    /\ (ep.readDone /\ ~GoodSamples) =>
          /\ pc \in {"enter_sleep", "asleep"}
          /\ ep.reports = 0
          /\ ep.marks = 0
          /\ rtc_state.last_read_time = ep.start.last_read_time
          /\ rtc_state.sensor_read_count = ep.start.sensor_read_count

C4_Witness ==
    /\ pc = "asleep" /\ ep.readDone
    /\ valid_soil_samples = 0 /\ valid_battery_samples > 0

C7_FirstBootOnce ==
    [][ /\ (rtc_state.first_boot /\ ~rtc_state'.first_boot) =>
              (pc = "enter_sleep" /\ pc' = "asleep" /\ rtc_state.boot_count = 1)
        /\ ~rtc_state.first_boot => ~rtc_state'.first_boot
      ]_vars

C7_Witness ==
    /\ pc = "poll" /\ wake_cause = "other" /\ rtc_state.boot_count = 2
    /\ ~rtc_state.first_boot

\* C8: last_read_time changes only in mark_sensors_read; an episode marks at most
\* once, and exactly once when it has issued its reports.
C8_LastReadOnlyByMark ==
    /\ [](/\ ep.marks <= 1
          /\ ep.marks = 1 <=> (ep.reports > 0 /\ pc \in {"settle", "enter_sleep", "asleep"}))
    /\ [][rtc_state'.last_read_time # rtc_state.last_read_time => pc = "mark"]_vars

C8_Witness ==
    /\ pc = "asleep" /\ ep.marks = 1 /\ ep.start.sensor_read_count = 1
    /\ rtc_state.last_read_time # ep.start.last_read_time

\* C9: once deep_sleep_init has recorded the wake time t, should_read_sensors returns
\* true iff first_boot is set or t - last_read_time (in the unsigned time type) is at
\* least READ_INTERVAL.
C9_ShouldReadIff ==
    (api.asked /\ api.init) =>
       (api.ret <=> (api.fb \/ Sub64(api.t, api.last) >= READ_INTERVAL))

C9_Witness ==
    /\ api.asked /\ api.init /\ ~api.fb /\ api.ret
    /\ Sub64(api.t, api.last) = READ_INTERVAL

C11_ReadReportMarkOrder ==
    /\ ep.reports > 0 => (ep.readDone /\ ep.reads = 2 * NUM_SENSOR_SAMPLES)
    /\ ep.marks > 0 => ep.reports = ReportAttempts
    /\ pc = "sample" => (ep.reports = 0 /\ ep.marks = 0)
    /\ pc = "report" => ep.marks = 0

C11_Witness ==
    /\ pc = "settle" /\ ep.reads = 2 * NUM_SENSOR_SAMPLES
    /\ ep.reports = ReportAttempts /\ ep.marks = 1

\* C12: at a wake that follows only episodes without a marked reading (join timeout,
\* wake ceiling, or no valid sample of a kind), should_read_sensors returns true.
C12_RetryAfterFailure ==
    (api.asked /\ ep.start.boot_count >= 1 /\ ep.start.sensor_read_count = 0)
    => api.ret

\* the sum of val[i] over the indices i in S
RECURSIVE SumOver(_, _)
SumOver(val, S) ==
    IF S = {} THEN 0
    ELSE LET i == CHOOSE j \in S : TRUE
         IN  val[i] + SumOver(val, S \ {i})

\* the quotient q is the mean of val over the indices in S
IsMeanOf(q, val, S) ==
    /\ S # {}
    /\ q.den > 0
    /\ q.num * Cardinality(S) = SumOver(val, S) * q.den

AveragedAndDecided ==
    calc.fn = "read_averaged_sensors" /\ calc.step \in {"reported", "no_report"}

\* C13: with K of the N battery samples valid (0 < K <= N) the voltage given to the
\* report step is the mean of exactly the K valid voltages; with K = 0 nothing is
\* reported.
C13_BatteryMean ==
    AveragedAndDecided =>
       LET valid == {i \in DOMAIN calc.in : calc.in[i].battery.ok}
           mv == [i \in DOMAIN calc.in |-> calc.in[i].battery.mv]
       IN  /\ valid = {} => calc.step = "no_report"
           /\ calc.step = "reported" => IsMeanOf(calc.out.avg_voltage, mv, valid)

C13_Witness ==
    /\ AveragedAndDecided /\ calc.step = "reported"
    /\ {i \in DOMAIN calc.in : calc.in[i].battery.ok} = {2, 4}
    /\ calc.in[2].battery.mv # calc.in[4].battery.mv

\* C14: a soil sample with a valid moisture and a failed temperature read counts for
\* the moisture mean and not for the temperature mean: the reported temperature is
\* the mean over the samples whose temperature read succeeded.
C14_TemperatureMean ==
    (AveragedAndDecided /\ calc.step = "reported") =>
       LET soilOk == {i \in DOMAIN calc.in : SoilValid(calc.in[i].soil.o)}
           tempOk == {i \in DOMAIN calc.in : calc.in[i].soil.o = "ok"}
           pct == [i \in DOMAIN calc.in |-> MoisturePercent(calc.in[i].soil.raw)]
           temp == [i \in DOMAIN calc.in |-> calc.in[i].soil.temp]
       IN  /\ IsMeanOf(calc.out.avg_moisture, pct, soilOk)
           /\ tempOk # {} => IsMeanOf(calc.out.avg_temp, temp, tempOk)

\* C15: for every 16-bit raw value soil_sensor_read_moisture gives a percentage in
\* [0,100]: 0 below SOIL_VALUE_DRY, 100 above SOIL_VALUE_WET, the linear rescale
\* between them.
C15_MoistureClamped ==
    (calc.fn = "soil_sensor_read_moisture" /\ calc.step = "ret") =>
       /\ calc.out >= 0 /\ calc.out <= 100 * MOISTURE_SPAN
       /\ calc.in < SOIL_VALUE_DRY => calc.out = 0
       /\ calc.in > SOIL_VALUE_WET => calc.out = 100 * MOISTURE_SPAN
       /\ (calc.in >= SOIL_VALUE_DRY /\ calc.in <= SOIL_VALUE_WET) =>
             calc.out = (calc.in - SOIL_VALUE_DRY) * 100

C15_Witness ==
    /\ calc.fn = "soil_sensor_read_moisture" /\ calc.step = "ret"
    /\ calc.in = 0 /\ calc.out = 0

\* C16: voltage_to_percentage gives 100 above 4.3 V, and for every voltage a result
\* in [0,100]: 0 at or below BATT_VOLTAGE_MIN, 100 at or above BATT_VOLTAGE_MAX.
C16_BatteryPercentRange ==
    (calc.fn = "voltage_to_percentage" /\ calc.step = "ret") =>
       /\ calc.in > USB_PRESENT_MV => calc.out = 100 * PCT_SCALE
       /\ calc.out >= 0 /\ calc.out <= 100 * PCT_SCALE
       /\ calc.in <= BATT_VOLTAGE_MIN => calc.out = 0
       /\ calc.in >= BATT_VOLTAGE_MAX => calc.out = 100 * PCT_SCALE

C16_Witness ==
    /\ calc.fn = "voltage_to_percentage" /\ calc.step = "ret"
    /\ calc.in = USB_PRESENT_MV + 1 /\ calc.out = 100 * PCT_SCALE

NotDueAtWake ==
    LET st == DeepSleepInit(ep.start, wake_cause)
    IN  /\ pc \notin {"boot", "api"}
        /\ ~st.first_boot
        /\ Sub64(wake_time_us, st.last_read_time) < READ_INTERVAL

C20_UntilZeroIffDue ==
    (calc.fn = "time_until_next_reading" /\ calc.in.init) =>
       LET due == ShouldReadSensors(calc.in.init, calc.in.st, calc.in.t)
       IN  /\ (calc.out = 0) <=> due
           /\ ~due => calc.out =
                 (READ_INTERVAL - Sub64(calc.in.t, calc.in.st.last_read_time)) \div 1000

\* C21: the wait for the join is bounded by the join timeout whatever the wake
\* ceiling: a loop iteration that finds the device unjoined at 30 s of the episode
\* leaves the loop, no unjoined iteration starts later than that, and an episode that
\* leaves the loop unjoined has read no sensor
C21_JoinWaitBounded ==
    /\ [][(pc = "timeouts" /\ pc' # "timeouts" /\ ~zigbee_joined
           /\ now >= MAX_JOIN_WAIT_MS) => pc' = "enter_sleep"]_vars
    /\ [](pc = "poll" /\ ~zigbee_joined => elapsed <= MAX_JOIN_WAIT_MS)
    /\ [](pc = "enter_sleep" /\ ~zigbee_joined
            => now = MAX_JOIN_WAIT_MS /\ now < WAKE_TIME_MS /\ ep.reads = 0)
    /\ [](pc \in {"enter_sleep", "asleep"} /\ ~ep.joinSeen => ep.reads = 0)

C21_Witness ==
    /\ pc = "enter_sleep" /\ ~zigbee_joined /\ now = MAX_JOIN_WAIT_MS
    /\ ep.polls = 31 /\ ep.reads = 0

\* a step of the signal handler's STEERING case: the stack leaves the attempt while the
\* wake-cycle task stays where it is
SteeringSignal == zb = "steering" /\ zb' # "steering" /\ pc' = pc

\* every failed steering signal schedules one attempt 3 s later, which the alarm
\* starts no earlier; a successful one sets joined, captures the network, schedules
\* nothing
SteeringRetries ==
    /\ [][(SteeringSignal /\ ~zigbee_joined')
            => zb' = "retry_wait" /\ alarm_wait' = STEERING_RETRY_MS]_vars
    /\ [][(zb = "retry_wait" /\ zb' # "retry_wait" /\ pc' = pc)
            => zb' = "steering" /\ alarm_wait = 0 /\ ~zigbee_joined']_vars
    /\ [][(SteeringSignal /\ zigbee_joined')
            => /\ ~zigbee_joined
               /\ zb' = "idle" /\ alarm_wait' = 0
               /\ device_info' = StackNetwork]_vars
    /\ [](zb = "idle" /\ zigbee_joined => alarm_wait = 0)

\* C22: failed steerings being retried as SteeringRetries says, an awake, unjoined
\* device whose start signal has been handled always has a steering attempt in
\* progress or scheduled
C22_SteeringAlwaysPending ==
    (Awake /\ ~zigbee_joined /\ zb \notin {"startup", "bdb_init"})
       => zb \in {"steering", "retry_wait"}

\* C23: the join flag is set only by the signal handler, on a successful steering
\* signal or on a successful start signal of a device that is not factory new; the
\* second case captures the network fields and goes to the joined state with no
\* steering started before or after; steering is started only for a factory-new
\* device or by the retry alarm
C23_JoinedOnlyBySignal ==
    /\ [][(~zigbee_joined /\ zigbee_joined') =>
            /\ pc' = pc /\ Awake
            /\ zb' = "idle" /\ device_info' = StackNetwork
            /\ \/ zb = "steering"
               \/ zb = "bdb_init" /\ ~factory_new /\ ~ep'.steered]_vars
    /\ [][(zb # "steering" /\ zb' = "steering") =>
            (zb = "bdb_init" /\ factory_new) \/ zb = "retry_wait"]_vars
    /\ [](zigbee_joined => zb \in {"idle", "stopped"} /\ device_info = StackNetwork)

C23_Witness ==
    /\ zigbee_joined /\ ~ep.steered /\ zb = "idle" /\ pc = "report"
    /\ device_info = StackNetwork /\ ~factory_new

\* C27: boot_count goes up by exactly one in the step that runs deep_sleep_init,
\* whatever the wake cause, and no other step changes it: it never goes down and is
\* never set back
C27_BootCountCounts ==
    [][rtc_state'.boot_count =
          rtc_state.boot_count + (IF pc = "boot" /\ pc' # "boot" THEN 1 ELSE 0)]_vars

C27_Witness ==
    /\ pc = "stack_started" /\ wake_cause = "other"
    /\ rtc_state.boot_count = 2 /\ ep.start.boot_count = 1

\* C28: sensor_read_count is one more than the wake found it once the episode has
\* read successfully, reported and marked, and is what the wake found it otherwise;
\* it never exceeds boot_count
C28_ReadCountCounts ==
    /\ rtc_state.sensor_read_count <= rtc_state.boot_count
    /\ rtc_state.sensor_read_count = ep.start.sensor_read_count + ep.marks
    /\ ep.marks = (IF ep.reports > 0 /\ pc \in {"settle", "enter_sleep", "asleep"}
                   THEN 1 ELSE 0)
    /\ ep.reports > 0 => ep.readDone /\ sensors_read /\ ep.reports = ReportAttempts

C28_Witness ==
    /\ pc = "asleep" /\ rtc_state.boot_count = 2 /\ rtc_state.sensor_read_count = 1
    /\ ep.readDone /\ ep.reports = 0 /\ ep.start.sensor_read_count = 1

\* a commissioning call: the stack is told to initialise or to steer
CommissioningCall == zb' # zb /\ zb' \in {"bdb_init", "steering"}

\* the positions of wake_cycle_task
InWakeCycleTask ==
    pc \in {"poll", "timeouts", "sample", "report", "mark", "settle", "enter_sleep"}

\* C29: every commissioning call is made while the main-loop task exists, by a step
\* of the main loop (signal handler or alarm) and not of app_main or the wake-cycle
\* task; while that task does not exist the stack has gone no further than being
\* started; the wake-cycle task runs only after the main-loop task was created
C29_CommissioningInMainLoop ==
    /\ [][CommissioningCall => main_loop_task /\ Awake /\ pc' = pc]_vars
    /\ [](~main_loop_task => zb \in {"stopped", "startup"} /\ ~zigbee_joined)
    /\ [](InWakeCycleTask => main_loop_task)

C29_Witness ==
    /\ pc = "loop_started" /\ main_loop_task /\ zb = "steering" /\ ep.steered

\* C30: rtc_state is changed only by steps of app_main and the wake-cycle task, at
\* deep_sleep_init, deep_sleep_mark_sensors_read and deep_sleep_enter, each of which
\* moves that flow on; a step of the main-loop task (signal handler, alarm) leaves it
\* as it is and is enabled whatever it holds
C30_CycleStateOneFlow ==
    /\ [][rtc_state' # rtc_state =>
            /\ pc' # pc
            /\ \/ pc = "boot" /\ pc' = "stack_started"
               \/ pc = "mark" /\ pc' = "settle"
               \/ pc = "enter_sleep" /\ pc' = "asleep"]_vars
    /\ [][(zb' # zb /\ pc' = pc) => rtc_state' = rtc_state]_vars
    /\ [](ENABLED ZbSteering <=> (Awake /\ zb = "steering"))
    /\ [](ENABLED ZbDeviceStart <=> (Awake /\ zb = "bdb_init"))

C30_Witness ==
    /\ pc = "settle" /\ ep.marks = 1 /\ zigbee_joined /\ ep.steered
    /\ rtc_state.sensor_read_count = ep.start.sensor_read_count + 1

\* report_sensor_data has returned
Reported == calc.fn = "report_sensor_data" /\ calc.step \in {"ret", "marked"}

\* C24: for every averaged reading the report makes exactly one set_attribute call
\* for each of the four quantities, in order, whatever the stack answers to any of
\* them, and whatever it answers the reading is then marked as read
C24_FourAttemptsThenMark ==
    /\ Reported =>
          /\ [i \in DOMAIN calc.out |-> calc.out[i].attr] =
                <<"battery_percent", "battery_voltage", "moisture", "temperature">>
          /\ \A i \in DOMAIN calc.out :
                calc.out[i].success = calc.in.status[calc.out[i].attr]
          /\ (calc.step = "marked") <=>
                (rtc_state.sensor_read_count = 1 /\ data_transmitted)
    /\ (calc.fn = "report_sensor_data" /\ calc.step = "ret") => ENABLED CalcMarkRead

C24_Witness ==
    /\ calc.fn = "report_sensor_data" /\ calc.step = "marked" /\ Len(calc.out) = 4
    /\ \A i \in 1..4 : ~calc.out[i].success
    /\ rtc_state.sensor_read_count = 1

\* w is the integer part of n/d, for n >= 0 and d > 0
IsFloorOf(w, n, d) == w * d <= n /\ n < (w + 1) * d

\* w is n/d with its fraction dropped, for d > 0
IsTruncOf(w, n, d) == IF n >= 0 THEN IsFloorOf(w, n, d) ELSE IsFloorOf(-w, -n, d)

\* the value of the report's call for one attribute
WireOf(attr) == (CHOOSE i \in DOMAIN calc.out : calc.out[i].attr = attr)

\* C25: the values handed to the stack are floor(percent * 2) capped at 200,
\* floor(volts * 10), floor(moisture * 100) capped at 10000 and trunc(celsius * 100),
\* and each lies in the range of its attribute, for every averaged reading
C25_WireValuesInRange ==
    (calc.fn = "report_sensor_data" /\ calc.step = "ret") =>
       LET a == calc.in.avg
           bp == calc.out[WireOf("battery_percent")].value
           bv == calc.out[WireOf("battery_voltage")].value
           hu == calc.out[WireOf("moisture")].value
           te == calc.out[WireOf("temperature")].value
       IN  /\ bp \in 0..BATTERY_PERCENT_WIRE_MAX
           /\ \/ IsFloorOf(bp, 2 * a.avg_percent.num, PCT_SCALE * a.avg_percent.den)
              \/ /\ bp = BATTERY_PERCENT_WIRE_MAX
                 /\ 2 * a.avg_percent.num >= bp * PCT_SCALE * a.avg_percent.den
           /\ bv \in 0..UINT8_MAX
           /\ IsFloorOf(bv, a.avg_voltage.num, 100 * a.avg_voltage.den)
           /\ hu \in 0..HUMIDITY_WIRE_MAX
           /\ \/ IsFloorOf(hu, 100 * a.avg_moisture.num, MOISTURE_SPAN * a.avg_moisture.den)
              \/ /\ hu = HUMIDITY_WIRE_MAX
                 /\ 100 * a.avg_moisture.num >= hu * MOISTURE_SPAN * a.avg_moisture.den
           /\ te \in INT16_MIN..INT16_MAX
           /\ IsTruncOf(te, 100 * a.avg_temp.num, a.avg_temp.den)

\* the message is one the handler acts on
ForIndicator(m) ==
    /\ m.ptr = "message" /\ m.status = "SUCCESS"
    /\ m.dst_endpoint = HA_ESP_SENSOR_ENDPOINT /\ m.cluster = "ON_OFF"
    /\ m.attr_id = "ON_OFF" /\ m.type = "BOOL"

\* C26: the handler sets the indicator to the boolean received, off for a null value
\* pointer, when the message has success status and names the sensor endpoint, the
\* On/Off cluster, the on/off attribute and the boolean type; for any other message
\* the indicator is as it was, and an error status is answered with an error; the
\* episode's flags and the persistent cycle state are as they were
C26_IndicatorFollowsOnOff ==
    (calc.fn = "zb_attribute_handler" /\ calc.step = "ret") =>
       LET m == calc.in.message
       IN  /\ ForIndicator(m) => calc.out.led_state = (m.value = "true")
           /\ ~ForIndicator(m) => calc.out.led_state = calc.in.led_state
           /\ (m.ptr = "message" /\ m.status # "SUCCESS") => calc.out.ret # "ESP_OK"
           /\ ForIndicator(m) => calc.out.ret = "ESP_OK"
           /\ ~sensors_read /\ ~data_transmitted /\ ~readings_complete
           /\ rtc_state = RtcPowerOn

C26_Witness ==
    /\ calc.fn = "zb_attribute_handler" /\ calc.step = "ret"
    /\ ForIndicator(calc.in.message) /\ calc.in.message.value = "null"
    /\ calc.in.led_state /\ ~calc.out.led_state

SoilReadAllDone == calc.fn = "soil_sensor_read_all" /\ calc.step = "ret" /\ ~calc.in.null

\* C31: soil_sensor_read_all succeeds whenever the moisture read succeeds: a failed
\* temperature sub-read gives success with the valid moisture value and temperature_c
\* = 0; a failed moisture read gives an error, leaves the caller's record unwritten
\* and does not attempt the temperature read.
C31_MoistureDecidesReadAll ==
    SoilReadAllDone =>
       /\ calc.in.o # "nack" =>
             /\ calc.out.ret = "ESP_OK"
             /\ calc.out.data.valid
             /\ calc.out.data.moisture_percent = MoisturePercent(calc.in.raw)
       /\ calc.in.o = "temp_timeout" => calc.out.data.temperature_c = 0
       /\ calc.in.o = "nack" =>
             /\ calc.out.ret # "ESP_OK"
             /\ calc.out.data = calc.in.data
             /\ calc.out.subreads = <<"moisture">>

C31_Witness ==
    /\ SoilReadAllDone /\ calc.in.o = "temp_timeout" /\ calc.in.data.valid
    /\ calc.out.ret = "ESP_OK" /\ calc.out.data.temperature_c = 0
    /\ calc.out.data.moisture_percent = MoisturePercent(900)

BatteryReadDone == calc.fn = "battery_read" /\ calc.step = "ret" /\ ~calc.in.null

\* the conversions of the call that gave a calibrated mV value
ValidConversions ==
    IF ~calc.in.adc_handle THEN {}
    ELSE {i \in 1..BATTERY_SAMPLES_AVG :
             calc.in.conv[i].read /\ calc.in.adc_cali_handle /\ calc.in.conv[i].cali}

VoltageDone == calc.fn = "voltage_to_percentage" /\ calc.step = "ret"

\* the rise of the steepest segment (3.7 V - 3.9 V, 30 % over 200 mV) per mV
SteepestRise == (30 * PCT_SCALE) \div 200

\* the breakpoints of the curve and the percentage the segments meet at
Breakpoints ==
    {<<BATT_VOLTAGE_MIN, 0>>, <<3400, 20>>, <<3700, 50>>, <<3900, 80>>,
     <<BATT_VOLTAGE_MAX, 100>>}

\* C40: for battery operation (at most 4.3 V) voltage_to_percentage never decreases
\* as the voltage rises, and the segments agree at the breakpoints: 0 % at 3.0 V, 20 %
\* at 3.4 V, 50 % at 3.7 V, 80 % at 3.9 V, 100 % at 4.2 V, without a jump (one mV
\* more never adds more than the steepest segment's rise).
C40_CurveMonotoneAndContinuous ==
    (VoltageDone /\ calc.in <= USB_PRESENT_MV) =>
       /\ calc.in > 0 =>
             /\ VoltageToPercentage(calc.in - 1) <= calc.out
             /\ calc.out - VoltageToPercentage(calc.in - 1) <= SteepestRise
       /\ \A b \in Breakpoints : calc.in = b[1] => calc.out = b[2] * PCT_SCALE
       /\ calc.out <= VoltageToPercentage(calc.in + 1)

C40_Witness ==
    /\ VoltageDone /\ calc.in = 3701
    /\ calc.out = 50 * PCT_SCALE + SteepestRise
    /\ VoltageToPercentage(3700) = 50 * PCT_SCALE

\* the wake timestamp lies before the persisted last_read_time, by at most the range
\* of the time type less one interval
WakeBeforeLastRead(t, last) == t < last /\ last - t <= TIME_MOD - READ_INTERVAL

\* C38: the elapsed time is the unsigned difference wake_time_us - last_read_time of
\* the time type: with a wake timestamp below last_read_time it wraps, so that (with
\* first_boot false and last_read_time - wake_time_us at most the type's range less
\* READ_INTERVAL) should_read_sensors returns true and time_until_next_reading 0.
C38_WrappedElapsedIsDue ==
    /\ ( /\ api.asked /\ api.init /\ ~api.fb
         /\ WakeBeforeLastRead(api.t, api.last) )
       => /\ api.ret
          /\ Sub64(api.t, api.last) = TIME_MOD - (api.last - api.t)
    /\ ( /\ calc.fn = "time_until_next_reading" /\ calc.step = "ret"
         /\ calc.in.init
         /\ WakeBeforeLastRead(calc.in.t, calc.in.st.last_read_time) )
       => calc.out = 0

C38_Witness ==
    /\ api.asked /\ api.init /\ ~api.fb /\ api.ret
    /\ api.t = READ_INTERVAL - 1 /\ api.last = TIME_MOD - 1
    /\ calc.fn = "time_until_next_reading" /\ calc.step = "ret" /\ calc.in.init
    /\ calc.in.t = api.t /\ calc.in.st.last_read_time = api.last
    /\ calc.out = 0

\* a scheduler function was called before deep_sleep_init
CalledUninitialized(fn) == calc.fn = fn /\ calc.step = "ret" /\ ~calc.in.init

\* C39: before deep_sleep_init has run, should_read_sensors returns false (also with
\* first_boot set), get_state returns false and leaves the caller's record alone,
\* time_until_next_reading returns the whole interval, and deep_sleep_enter returns
\* the invalid-state error without arming the timer, clearing first_boot or powering
\* down.
C39_UninitializedGuards ==
    /\ (api.asked /\ ~api.init) => ~api.ret
    /\ CalledUninitialized("deep_sleep_get_state") =>
          ~calc.out.ret /\ calc.out.state = calc.in.state
    /\ CalledUninitialized("time_until_next_reading") => calc.out = SLEEP_INTERVAL_SEC
    /\ CalledUninitialized("deep_sleep_enter") =>
          /\ calc.out = "ESP_ERR_INVALID_STATE"
          /\ sleep_timer = calc.in.timer
          /\ rtc_state.first_boot = calc.in.st.first_boot
          /\ pc = "api"

C39_Witness ==
    /\ api.asked /\ ~api.init /\ api.fb /\ ~api.ret
    /\ CalledUninitialized("deep_sleep_enter") /\ calc.in.st.first_boot
    /\ rtc_state.first_boot /\ sleep_timer = 0 /\ pc = "api"

SignalHandled == calc.fn = "zigbee_core_app_signal_handler" /\ calc.step = "ret"

\* C33: the cached join flag is monotonic: once zigbee_core_is_joined() returns true,
\* no signal the handler is given afterwards (also a failed steering or start signal)
\* makes it return false again.
C33_JoinedStaysJoined == (SignalHandled /\ calc.in.joined) => calc.out.joined

C33_Witness ==
    /\ SignalHandled /\ calc.in.joined /\ calc.in.sig = "STEERING" /\ ~calc.in.ok
    /\ calc.out.joined /\ calc.out.alarm = STEERING_RETRY_MS

\* in the firmware's own runs the flag the wake cycle task saw set is still set at
\* every later point of the episode (holds under Spec)
JoinSeenStaysJoined == (ep.joinSeen /\ pc # "boot") => zigbee_joined

\* the start signal (FIRST_START / REBOOT) of this episode carried an error status:
\* commissioning is at rest and the session has not joined
StartFailed == zb = "idle" /\ ~zigbee_joined

\* C35: after a start signal with an error status no retry is scheduled and no
\* further commissioning step follows, so the join flag stays false for the rest of
\* the episode, and the episode ends through the MAX_JOIN_WAIT_MS (30 s) join timeout.
C35_FailedStartEndsByJoinTimeout ==
    StartFailed =>
       /\ alarm_wait = 0
       /\ ~ENABLED ZbRetryAlarm
       /\ ~ENABLED ZbSteering
       /\ ~ENABLED ZbDeviceStart
       /\ ~ENABLED ZbSkipStartup
       /\ ~ep.joinSeen
       /\ pc = "enter_sleep" =>
             JoinTimedOut(zigbee_joined, now) /\ now = MAX_JOIN_WAIT_MS

C35_Witness ==
    /\ StartFailed /\ pc = "enter_sleep" /\ ~ep.steered
    /\ now = MAX_JOIN_WAIT_MS /\ ep.polls > 1

\* the wake cycle task saw the session joined and no reading is due in this episode
\* (the answer of should_read_sensors on the record the episode started with)
JoinedNotDue == ep.joinSeen /\ ~ShouldReadSensors(initialized, ep.start, wake_time_us)

\* C36: an episode in which the session is joined but should_read_sensors is false
\* has no early exit: it reads and reports nothing, and deep_sleep_enter is not
\* called before the elapsed time sampled by the loop reaches WAKE_TIME_MS (60 s).
C36_NoEarlyExitWhenNotDue ==
    (JoinedNotDue /\ pc \notin {"boot", "stack_started", "loop_started"}) =>
       /\ pc \in {"poll", "timeouts", "enter_sleep", "asleep"}
       /\ ep.reads = 0 /\ ep.reports = 0 /\ ep.marks = 0
       /\ pc \in {"enter_sleep", "asleep"} => now >= WAKE_TIME_MS

C36_Witness ==
    /\ JoinedNotDue /\ pc = "enter_sleep" /\ now = WAKE_TIME_MS
    /\ ep.reads = 0 /\ zigbee_joined /\ rtc_state.sensor_read_count = 1

\* the episode is a later wake (first_boot cleared) of a device whose clock restarts
\* at every wake, and its timestamp lies in [last_read_time, last_read_time +
\* READ_INTERVAL)
WakeInsideInterval ==
    /\ clockDomain = "since_boot"
    /\ initialized /\ ~ep.start.first_boot
    /\ wake_time_us >= ep.start.last_read_time
    /\ wake_time_us - ep.start.last_read_time < READ_INTERVAL

InfoObserved == calc.fn = "zigbee_core_get_device_info" /\ calc.step = "ret"

\* the network fields of a zigbee_device_info_t are the ones of the join
HasNetwork(info) ==
    /\ info.pan_id = StackNetwork.pan_id
    /\ info.channel = StackNetwork.channel
    /\ info.short_address = StackNetwork.short_address

\* C34: under every interleaving of the main-loop task with a task calling
\* zigbee_core_is_joined / zigbee_core_get_device_info, a caller that observes joined
\* = true also observes the PAN ID, channel and short address captured for that join:
\* no reachable state has joined = true with network fields at their pre-join values.
C34_JoinedComesWithNetwork ==
    /\ zigbee_joined => HasNetwork(device_info)
    /\ (InfoObserved /\ calc.out.zigbee_joined) => HasNetwork(calc.out)

\* once the handler has returned, the flag does come with the network fields
HandlerReturnedWithNetwork == (zb = "idle" /\ zigbee_joined) => HasNetwork(device_info)

\* a caller is handed joined = true with the fields all at their initial values
TornDeviceInfo ==
    /\ InfoObserved /\ calc.out.zigbee_joined
    /\ calc.out.pan_id = 0 /\ calc.out.channel = 0 /\ calc.out.short_address = 0

====
